---- MODULE Spec2Model ----
(***************************************************************************)
(* A model of the HotDoc doctor scraper (scraper.py, selenium_scraper.py). *)
(*                                                                         *)
(* The web, the browser and the console are the environment: every answer  *)
(* they can give (a response, an exception, a timeout, a document) is an   *)
(* input drawn from a small set.  The functions of the two classes are     *)
(* operators over those inputs; the loops of scrape_all_locations and main *)
(* are actions over the scraper's fields.                                  *)
(*                                                                         *)
(* Text is modelled as a sequence of words (what str.split() returns and   *)
(* ' '.join() consumes); None is the record Nothing, a present value v is  *)
(* Just(v).                                                                *)
(***************************************************************************)
EXTENDS Integers, Sequences, FiniteSets, TLC

VARIABLES
    pc,             \* control point of the running function
    inp,            \* arguments and environment answers of the call under study
    out,            \* what the call returned
    driver,         \* SeleniumHotDocScraper.driver
    fetch_log,      \* one entry per get_page_with_selenium call
    choice,         \* main: the menu choice read from the console
    locations,      \* scrape_all_locations: the list iterated by the outer loop
    loc_i,          \* index of the current location
    center_urls,    \* candidate URLs of the current location
    url_i,          \* index of the current URL in center_urls
    visited_urls,   \* HotDocScraper.visited_urls
    scraped_data,   \* HotDocScraper.scraped_data
    total_doctors,  \* local counter of scrape_all_locations
    doctors_data,   \* what the last scrape_medical_center call returned
    requests,       \* the network requests made, in order
    scraper,        \* the class of the scraper object
    files,          \* files written by save_data, in order
    console         \* what main printed, in order

pureVars == <<pc, inp, out>>
selVars == <<driver, fetch_log>>
runVars == <<choice, locations, loc_i, center_urls, url_i, visited_urls, scraped_data,
             total_doctors, doctors_data, requests, scraper,
             files, console>>
vars == <<pc, inp, out, driver, fetch_log, choice, locations, loc_i, center_urls, url_i,
          visited_urls, scraped_data, total_doctors, doctors_data, requests, scraper,
          files, console>>

(***************************************************************************)
(* Python values                                                           *)
(***************************************************************************)
Nothing == [some |-> FALSE]
Just(v) == [some |-> TRUE, val |-> v]

\* Python truthiness of an optional list (of words, of parts): None and [] are falsy.
Truthy(o) == o.some /\ o.val # <<>>

\* Python truthiness of an optional string kept whole: None and '' are falsy.
TruthyStr(o) == o.some /\ o.val # ""

\* Python truthiness of an optional number: None and 0 are falsy.
TruthyNum(o) == o.some /\ o.val # 0

Range(s) == {s[i] : i \in DOMAIN s}

\* Unused variables of a specification keep these values.
PureIdle == pc = "idle" /\ inp = <<>> /\ out = <<>>
SelIdle == driver = "None" /\ fetch_log = <<>>
RunIdle ==
    /\ choice = "" /\ locations = <<>> /\ loc_i = 0 /\ center_urls = <<>> /\ url_i = 0
    /\ visited_urls = {} /\ scraped_data = <<>> /\ total_doctors = 0
    /\ doctors_data = <<>> /\ requests = <<>> /\ scraper = "" /\ files = <<>>
    /\ console = <<>>

(***************************************************************************)
(* HotDocScraper.get_page                                                  *)
(***************************************************************************)
\* Bound: the max_retries arguments tried are 0..MaxRetries.
MaxRetries == 3

\* The default of the max_retries parameter.
DefaultMaxRetries == 3

\* What one pass through the try block can end in.  The first three raise a
\* requests.exceptions.RequestException (raise_for_status raises HTTPError for a
\* non-2xx status); "other_exception" is any exception of another class raised
\* inside the try block, e.g. by the BeautifulSoup constructor.
Outcomes == {"ok", "network_error", "timeout", "bad_status", "other_exception"}
IsRequestException(o) == o \in {"network_error", "timeout", "bad_status"}

RECURSIVE get_page_from(_, _, _, _)
\* The for loop of get_page from iteration `attempt` on; `events` is what was done so far.
get_page_from(attempt, responses, max_retries, events) ==
    IF attempt >= max_retries
    THEN [kind |-> "none", events |-> events]
    ELSE LET o == responses[attempt + 1]
             e1 == events \o <<"delay", "get">>
         IN IF o = "ok"
            THEN [kind |-> "soup", events |-> e1]
            ELSE IF IsRequestException(o)
            THEN IF attempt = max_retries - 1
                 THEN [kind |-> "none", events |-> e1 \o <<"log_error">>]
                 ELSE get_page_from(attempt + 1, responses, max_retries, e1 \o <<"backoff">>)
            ELSE [kind |-> "raise", events |-> e1]

\* A get_page that sleeps the retry delay after its last failed attempt too.
get_page_backoff_always(responses, max_retries) ==
    LET r == get_page_from(0, responses, max_retries, <<>>)
    IN  [r EXCEPT !.events =
            [i \in 1..Len(@) |-> IF @[i] = "log_error" THEN "backoff" ELSE @[i]]]

\* get_page(url, max_retries): responses[i] is what the i-th attempt ends in.
\* kind is "soup" (the parsed page), "none" (returned None) or "raise" (an
\* exception left get_page).
get_page(responses, max_retries) == get_page_from(0, responses, max_retries, <<>>)

Attempts(events) == Len(SelectSeq(events, LAMBDA e : e = "get"))

FetchInit ==
    /\ pc = "call"
    /\ inp \in {[max_retries |-> m, responses |-> r] :
                    m \in 0..MaxRetries, r \in [1..MaxRetries -> Outcomes]}
    /\ out = <<>>
    /\ SelIdle /\ RunIdle

\* One call of get_page.
GetPage ==
    /\ pc = "call"
    /\ out' = get_page(inp.responses, inp.max_retries)
    /\ pc' = "done"
    /\ UNCHANGED <<inp, selVars, runVars>>

FetchNext == GetPage
SpecFetch == FetchInit /\ [][FetchNext]_vars

\* The attempts get_page made all failed.
AllAttemptsFailed ==
    \A i \in 1..inp.max_retries : inp.responses[i] # "ok"

\* C1: get_page makes at most max_retries attempts, returns None when every
\* attempt fails, and lets no exception escape, whatever an attempt ends in.
C1_NeverRaises ==
    pc = "done" =>
        /\ Attempts(out.events) <= inp.max_retries
        /\ (AllAttemptsFailed => out.kind = "none")
        /\ out.kind # "raise"

\* The part of C1 the except clause does give: with RequestException failures only.
C1_RequestExceptionsOnly ==
    (pc = "done" /\ \A i \in 1..inp.max_retries : inp.responses[i] # "other_exception") =>
        /\ Attempts(out.events) <= inp.max_retries
        /\ (AllAttemptsFailed => out.kind = "none" /\ Attempts(out.events) = inp.max_retries)
        /\ out.kind # "raise"

\* The positions of the fetch attempts in the events of a call.
GetPositions(events) == SelectSeq([i \in 1..Len(events) |-> i], LAMBDA i : events[i] = "get")

\* C21: every fetch attempt is directly preceded by one pre-attempt delay; a
\* retry delay follows exactly the failed attempts that are followed by another
\* attempt (none follows a successful or the last failed attempt); no attempt
\* is made after the first successful one.
C21_DelaysAroundAttempts ==
    pc = "done" =>
        LET events == out.events
            gets == GetPositions(events)
            sleeps == SelectSeq(events, LAMBDA e : e = "delay")
        IN  /\ Len(sleeps) = Len(gets)
            /\ \A k \in DOMAIN gets :
                    LET i == gets[k]
                        again == k < Len(gets)
                    IN  /\ i > 1 /\ events[i - 1] = "delay"
                        /\ (inp.responses[k] = "ok") => ~again /\ i = Len(events)
                        /\ (inp.responses[k] # "ok" /\ again) =>
                                /\ events[i + 1] = "backoff"
                                /\ events[i + 2] = "delay"
                        /\ ~again => \A j \in (i + 1)..Len(events) : events[j] # "backoff"
            /\ \A j \in DOMAIN events :
                    events[j] = "backoff" => j > 1 /\ events[j - 1] = "get"

\* get_page retried twice and then succeeded.
C21_Witness ==
    /\ pc = "done"
    /\ out.kind = "soup"
    /\ out.events = <<"delay", "get", "backoff", "delay", "get", "backoff", "delay", "get">>

\* get_page gave up after its last failed attempt.
C21_WitnessGaveUp ==
    /\ pc = "done"
    /\ out.kind = "none"
    /\ inp.max_retries = MaxRetries
    /\ Attempts(out.events) = MaxRetries

(***************************************************************************)
(* SeleniumHotDocScraper.setup_selenium, get_page_with_selenium            *)
(***************************************************************************)
\* Bound: the number of get_page_with_selenium calls of one run.
MaxFetches == 3

\* What the environment answers during one get_page_with_selenium call:
\*   nav       driver.get(url): "ok" or "raise"
\*   wait      WebDriverWait(...).until(...): "found", "timeout" (TimeoutException)
\*             or "raise" (another WebDriverException)
\*   source    driver.page_source and its parse: "ok" or "raise"
\*   responses what the attempts of a get_page call end in
FallbackResponses ==
    {<<"ok", "ok", "ok">>, <<"bad_status", "timeout", "network_error">>,
     <<"timeout", "other_exception", "ok">>}
SelEnvs ==
    [nav : {"ok", "raise"}, wait : {"found", "timeout", "raise"}, source : {"ok", "raise"},
     responses : FallbackResponses]

\* A get_page call made from get_page_with_selenium: the primary fetch mode.
PrimaryFetch(env, events) ==
    LET r == get_page(env.responses, DefaultMaxRetries)
    IN [kind |-> r.kind, via |-> "requests", events |-> events \o <<"get_page">> \o r.events]

\* The except handler of get_page_with_selenium with the fallback call left out.
SeleniumFailedNoFallback(env, events) ==
    [kind |-> "none", via |-> "requests", events |-> events \o <<"print_selenium_error">>]

\* The except handler of get_page_with_selenium (lines 104-106).
SeleniumFailed(env, events) == PrimaryFetch(env, events \o <<"print_selenium_error">>)

\* get_page_with_selenium(url, wait_for_selector): drv is self.driver ("None" when
\* setup_selenium failed), wfs the selector argument ("None" when not given).
\* via tells whose markup was returned: the browser's or the requests session's.
get_page_with_selenium(drv, wfs, env) ==
    IF drv = "None"
    THEN PrimaryFetch(env, <<"print_not_available">>)
    ELSE LET e1 == <<"driver_get">>
             e2 == e1 \o <<"driver_wait">>
             e3 == e2 \o (IF wfs # "None" /\ env.wait = "timeout"
                          THEN <<"print_timeout">> ELSE <<>>)
                      \o <<"settle_delay", "driver_page_source">>
         IN IF env.nav = "raise" THEN SeleniumFailed(env, e1)
            ELSE IF env.wait = "raise" THEN SeleniumFailed(env, e2)
            ELSE IF env.wait = "timeout" /\ wfs = "None" THEN SeleniumFailed(env, e2)
            ELSE IF env.source = "raise" THEN SeleniumFailed(env, e3)
            ELSE [kind |-> "soup", via |-> "browser", events |-> e3]

UsesDriver(events) == \E i \in DOMAIN events :
    events[i] \in {"driver_get", "driver_wait", "driver_page_source"}

\* After SeleniumHotDocScraper.__init__: setup_selenium either created the
\* driver or caught the failure and left self.driver = None.
SeleniumInit ==
    /\ pc = "ready"
    /\ driver \in {"None", "chrome"}
    /\ fetch_log = <<>>
    /\ inp = <<>> /\ out = <<>>
    /\ RunIdle

\* One call of get_page_with_selenium.
SeleniumFetch ==
    /\ pc = "ready"
    /\ Len(fetch_log) < MaxFetches
    /\ \E wfs \in {"None", "body"}, env \in SelEnvs :
          LET r == get_page_with_selenium(driver, wfs, env)
          IN /\ inp' = [wait_for_selector |-> wfs, env |-> env]
             /\ out' = r
             /\ fetch_log' = Append(fetch_log,
                    [kind |-> r.kind, via |-> r.via, used_driver |-> UsesDriver(r.events)])
    /\ UNCHANGED <<pc, driver, runVars>>

\* cleanup(): quits the driver (self.driver keeps its value).
Cleanup ==
    /\ pc = "ready"
    /\ pc' = "closed"
    /\ UNCHANGED <<inp, out, selVars, runVars>>

SeleniumNext == SeleniumFetch \/ Cleanup
SpecSelenium == SeleniumInit /\ [][SeleniumNext]_vars

\* The automation of the last call raised: navigation, wait or page read.
AutomationRaised ==
    \/ inp.env.nav = "raise"
    \/ inp.env.nav = "ok" /\ inp.env.wait = "raise"
    \/ inp.env.nav = "ok" /\ inp.env.wait = "timeout" /\ inp.wait_for_selector = "None"
    \/ inp.env.nav = "ok" /\ inp.env.wait = "found" /\ inp.env.source = "raise"
    \/ inp.env.nav = "ok" /\ inp.env.wait = "timeout" /\ inp.wait_for_selector # "None"
          /\ inp.env.source = "raise"

\* The result is the one the primary mode gives for the same responses.
IsPrimaryResult(r, env) ==
    /\ r.via = "requests"
    /\ r.kind = get_page(env.responses, DefaultMaxRetries).kind
    /\ Attempts(r.events) = Attempts(get_page(env.responses, DefaultMaxRetries).events)
    /\ Attempts(r.events) >= 1

\* C6: get_page_with_selenium falls back to get_page when the driver is
\* unavailable or the automation raises; once setup_selenium has failed every
\* fetch of the run uses the primary mode and the driver is never used.
C6_FallsBackToPrimary ==
    /\ (inp # <<>> /\ (driver = "None" \/ AutomationRaised)) => IsPrimaryResult(out, inp.env)
    /\ driver = "None" =>
          \A i \in DOMAIN fetch_log :
              fetch_log[i].via = "requests" /\ ~fetch_log[i].used_driver

\* C6 witness: a run whose driver failed to start made several fetches, the
\* last one answered by the first request of the primary mode.
C6_Witness ==
    /\ driver = "None" /\ Len(fetch_log) >= 2
    /\ out.kind = "soup" /\ Attempts(out.events) = 1

\* C6, the other case: the automation raised and the fallback was exhausted too.
C6_WitnessRaised ==
    /\ driver = "chrome" /\ inp # <<>> /\ AutomationRaised /\ out.kind = "none"

\* C20: when the wait of get_page_with_selenium times out, with a selector
\* given or with the generic wait for the body, the fetch goes on to the settle
\* delay and returns the markup the browser holds.
C20_TimeoutKeepsBrowserMarkup ==
    (/\ inp # <<>> /\ driver = "chrome"
     /\ inp.env.nav = "ok" /\ inp.env.wait = "timeout" /\ inp.env.source = "ok") =>
        /\ out.kind = "soup" /\ out.via = "browser"
        /\ \E i \in DOMAIN out.events : out.events[i] = "settle_delay"

\* The part of C20 that holds: with a selector given, a timeout of the wait is
\* printed and the browser's markup is returned after the settle delay.
C20_NamedTimeoutKeepsMarkup ==
    (/\ inp # <<>> /\ driver = "chrome" /\ inp.wait_for_selector # "None"
     /\ inp.env.nav = "ok" /\ inp.env.wait = "timeout" /\ inp.env.source = "ok") =>
        /\ out.kind = "soup" /\ out.via = "browser"
        /\ \E i \in DOMAIN out.events : out.events[i] = "settle_delay"

(***************************************************************************)
(* Text                                                                    *)
(*                                                                         *)
(* A text is the sequence of its whitespace-separated words.  The words of *)
(* the model are pure capitalised words, words in capitals, lower-case     *)
(* words, and honorifics with or without a period; str.lower() and         *)
(* str.rstrip('.') are tables over them.                                   *)
(***************************************************************************)
\* str.lower()
Lower(w) ==
    CASE w \in {"Dr", "DR", "dr"} -> "dr"
      [] w \in {"Dr.", "DR.", "dr."} -> "dr."
      [] w \in {"Prof.", "prof."} -> "prof."
      [] w \in {"Prof", "prof"} -> "prof"
      [] w \in {"Doctor", "doctor"} -> "doctor"
      [] w \in {"Professor", "professor"} -> "professor"
      [] w \in {"Mr", "mr"} -> "mr"
      [] w \in {"Ms", "ms"} -> "ms"
      [] w \in {"Mrs", "mrs"} -> "mrs"
      [] w \in {"Miss", "miss"} -> "miss"
      [] w = "John" -> "john"
      [] w = "Smith" -> "smith"
      [] w = "Lee" -> "lee"
      [] w = "GP" -> "gp"
      [] w = "MBBS" -> "mbbs"
      [] w = "Our" -> "our"
      [] w = "Smith," -> "smith,"
      [] w = "Lee," -> "lee,"
      [] w = "Practitioner" -> "practitioner"
      [] w = "Practitioner," -> "practitioner,"
      [] w = "General" -> "general"
      [] w = "Female" -> "female"
      [] w = "Female," -> "female,"
      [] w = "FRACGP" -> "fracgp"
      [] w = "FRACGP," -> "fracgp,"
      [] w = "MBBS," -> "mbbs,"
      [] w = "Camden" -> "camden"
      [] w = "Camden," -> "camden,"
      [] w = "Skin" -> "skin"
      [] w = "Doctor," -> "doctor,"
      [] w = "Surgeon" -> "surgeon"
      [] w = "Surgeon," -> "surgeon,"
      [] w = "Speaks" -> "speaks"
      [] w = "English" -> "english"
      [] w = "English," -> "english,"
      [] w = "Mandarin" -> "mandarin"
      [] w = "Languages" -> "languages"
      [] w = "No" -> "no"
      [] OTHER -> w

\* str.rstrip('.')
RStripDot(w) ==
    CASE w = "dr." -> "dr"
      [] w = "prof." -> "prof"
      [] w = "Dr." -> "Dr"
      [] w = "DR." -> "DR"
      [] w = "Prof." -> "Prof"
      [] OTHER -> w

\* len(w)
WordLen(w) ==
    CASE w = "1" -> 1
      [] w \in {"Dr", "DR", "dr", "Mr", "Ms", "GP", "St"} -> 2
      [] w \in {"Dr.", "DR.", "Mrs", "Lee", "Our", "our", "VIC", "QLD", "NSW"} -> 3
      [] w \in {"Prof", "Miss", "John", "team", "MBBS", "Lee,", "High", "3143", "4000",
                "2000", "3000"} -> 4
      [] w \in {"Prof.", "Smith"} -> 5
      [] w \in {"Doctor", "doctor", "Smith,", "Sydney"} -> 6
      [] w \in {"Armadale", "Brisbane"} -> 8
      [] w \in {"Professor", "Australia", "Melbourne"} -> 9
      [] w = "Practitioner" -> 12

RECURSIVE SumLen(_)
SumLen(ws) == IF ws = <<>> THEN 0 ELSE WordLen(Head(ws)) + SumLen(Tail(ws))

\* len(' '.join(ws))
TextLen(ws) == IF ws = <<>> THEN 0 ELSE SumLen(ws) + Len(ws) - 1

\* clean_doctor_name removing the first title only.
clean_doctor_name_first_title(name_text) ==
    LET titles == {"dr", "dr.", "doctor", "prof", "prof.", "professor", "mr", "ms", "mrs", "miss"}
        hits == SelectSeq([i \in 1..Len(name_text) |-> i],
                          LAMBDA i : RStripDot(Lower(name_text[i])) \in titles)
    IN IF hits = <<>> THEN name_text
       ELSE SubSeq(name_text, 1, hits[1] - 1) \o SubSeq(name_text, hits[1] + 1, Len(name_text))

\* clean_doctor_name keeping every word: the title test left out.
clean_doctor_name_keep_all(name_text) == name_text

\* clean_doctor_name(name_text): the words that are not titles, joined by one space.
clean_doctor_name(name_text) ==
    LET titles == {"dr", "dr.", "doctor", "prof", "prof.", "professor", "mr", "ms", "mrs", "miss"}
    IN SelectSeq(name_text, LAMBDA word : RStripDot(Lower(word)) \notin titles)

\* extract_title(name_text): the first word that is a doctor or professor title,
\* as written; 'Dr.' when there is none.
extract_title(name_text) ==
    LET titles == {"dr", "dr.", "doctor", "prof", "prof.", "professor"}
        hits == SelectSeq(name_text, LAMBDA word : RStripDot(Lower(word)) \in titles)
    IN IF hits # <<>> THEN Head(hits) ELSE "Dr."

(***************************************************************************)
(* clean_doctor_name on strings                                            *)
(*                                                                         *)
(* A string is a sequence of items, each a word or the whitespace " "; two *)
(* words of a string are never adjacent.                                   *)
(***************************************************************************)
\* Bound: a name string has at most MaxNameItems items.
MaxNameItems == 6

\* str.split(): the words, whitespace dropped.
Split(text) == SelectSeq(text, LAMBDA x : x # " ")

\* ' '.join(words)
Join(words) ==
    [i \in 1..(IF words = <<>> THEN 0 ELSE 2 * Len(words) - 1) |->
        IF i % 2 = 1 THEN words[(i + 1) \div 2] ELSE " "]

RECURSIVE LStrip(_)
\* str.lstrip()
LStrip(text) == IF text # <<>> /\ Head(text) = " " THEN LStrip(Tail(text)) ELSE text

RECURSIVE RStrip(_)
\* str.rstrip()
RStrip(text) ==
    IF text # <<>> /\ text[Len(text)] = " " THEN RStrip(SubSeq(text, 1, Len(text) - 1))
    ELSE text

\* str.strip()
Strip(text) == RStrip(LStrip(text))

\* clean_doctor_name(name_text) from string to string (lines 632-639).
clean_doctor_name_str(name_text) == Strip(Join(clean_doctor_name(Split(name_text))))

NameItems == {"Dr", "Dr.", "Prof", "John", "Smith", " "}

\* The strings of at most MaxNameItems items.
NameTexts ==
    {t \in UNION {[1..n -> NameItems] : n \in 0..MaxNameItems} :
        \A i \in 1..(Len(t) - 1) : t[i] = " " \/ t[i + 1] = " "}

NameInit ==
    /\ pc = "call"
    /\ inp \in {[name_text |-> t] : t \in NameTexts}
    /\ out = <<>>
    /\ SelIdle /\ RunIdle

\* clean_doctor_name(name_text)
CleanName ==
    /\ pc = "call"
    /\ out' = [once |-> clean_doctor_name_str(inp.name_text)]
    /\ pc' = "cleaned"
    /\ UNCHANGED <<inp, selVars, runVars>>

\* clean_doctor_name applied to the name it returned.
CleanAgain ==
    /\ pc = "cleaned"
    /\ out' = [once |-> out.once, twice |-> clean_doctor_name_str(out.once)]
    /\ pc' = "done"
    /\ UNCHANGED <<inp, selVars, runVars>>

NameNext == CleanName \/ CleanAgain
SpecName == NameInit /\ [][NameNext]_vars

\* C14: clean_doctor_name is idempotent: cleaning a cleaned name returns it
\* unchanged.
C14_CleanIdempotent == pc = "done" => out.twice = out.once

\* C14 witness: a name with two titles and surplus whitespace was cleaned
\* twice; the first cleaning changed it and left a name.
C14_Witness ==
    /\ pc = "done"
    /\ Len(SelectSeq(inp.name_text, LAMBDA x : x \in {"Dr", "Dr.", "Prof"})) >= 2
    /\ Head(inp.name_text) = " "
    /\ out.once # <<>> /\ out.once # inp.name_text

(***************************************************************************)
(* The info line, the languages line, the rating                           *)
(*                                                                         *)
(* A paragraph is the sequence of its comma-separated parts, each part     *)
(* stripped and kept as its words; in the element's text a comma is        *)
(* attached to the word before it.                                         *)
(***************************************************************************)
\* w + ','
WithComma(w) ==
    CASE w = "Practitioner" -> "Practitioner,"
      [] w = "Female" -> "Female,"
      [] w = "male" -> "male,"
      [] w = "FRACGP" -> "FRACGP,"
      [] w = "MBBS" -> "MBBS,"
      [] w = "Camden" -> "Camden,"
      [] w = "Doctor" -> "Doctor,"
      [] w = "Surgeon" -> "Surgeon,"
      [] w = "English" -> "English,"
      [] w = "english" -> "english,"

\* kw in w, for a lower-cased word w of the model and the keywords the
\* extractors look for in lower-cased text.
WordHas(w, kw) ==
    CASE kw = "practitioner" -> w \in {"practitioner", "practitioner,"}
      [] kw = "doctor" -> w \in {"doctor", "doctor,"}
      [] kw = "specialist" -> w \in {"specialist"}
      [] kw = "surgeon" -> w \in {"surgeon", "surgeon,"}
      [] kw = "consultant" -> w \in {"consultant"}
      [] kw = "fracgp" -> w \in {"fracgp", "fracgp,"}
      [] kw = "mbbs" -> w \in {"mbbs", "mbbs,"}
      [] kw = "gp" -> w \in {"gp", "fracgp", "fracgp,"}
      [] kw = "speaks" -> w \in {"speaks"}
      [] kw = "languages" -> w \in {"languages"}
      [] OTHER -> FALSE

\* kw in ' '.join(ws).lower(), for a keyword without a space.
TextHas(ws, kw) == \E i \in DOMAIN ws : WordHas(Lower(ws[i]), kw)

\* re.match(r'^[A-Z]{2,}', part): the part starts with two capitals.
StartsTwoCapitals(part) == part # <<>> /\ Head(part) \in {"FRACGP", "MBBS", "GP", "DR", "DR."}

\* qual in part.upper(), for the degree abbreviations of the extractors.
UpperHas(part, qual) ==
    \E i \in DOMAIN part :
        CASE qual = "MBBS" -> part[i] = "MBBS"
          [] qual = "MD" -> part[i] = "Camden"
          [] qual = "FRACGP" -> part[i] = "FRACGP"
          [] OTHER -> FALSE

\* str.title() of a lower-cased word.
TitleWord(w) ==
    CASE w = "english" -> "English"
      [] w = "mandarin" -> "Mandarin"
      [] w = "languages" -> "Languages"
      [] w = "stars" -> "Stars"
      [] w = "no" -> "No"
      [] w = "rating" -> "Rating"
      [] w = "reviews" -> "Reviews"
      [] w = "(23" -> "(23"
      [] w = "reviews)" -> "Reviews)"
      [] OTHER -> w

\* The first match of r'(\d+\.?\d*)' in a word as float(), in tenths.
FirstDecimal(w) ==
    CASE w = "4.8" -> Just(48)
      [] w = "(23" -> Just(230)
      [] w = "0" -> Just(0)
      [] w = "5" -> Just(50)
      [] OTHER -> Nothing

\* The first match of r'(\d+)' in a word as int().
FirstInteger(w) ==
    CASE w = "4.8" -> Just(4)
      [] w = "(23" -> Just(23)
      [] w = "0" -> Just(0)
      [] w = "5" -> Just(5)
      [] OTHER -> Nothing

\* re.search(pattern, text): the first word that holds a match, by number(w).
FirstNumber(ws, number(_)) ==
    LET hits == SelectSeq(ws, LAMBDA w : number(w).some)
    IN IF hits = <<>> THEN Nothing ELSE number(Head(hits))

RECURSIVE Flatten(_)
\* The concatenation of a sequence of sequences.
Flatten(ss) == IF ss = <<>> THEN <<>> ELSE Head(ss) \o Flatten(Tail(ss))

\* The first paragraph (its index, 0 when none) whose text is not empty and
\* holds one of the trigger keywords.
info_paragraph(paras, triggers) ==
    LET hits == SelectSeq([i \in 1..Len(paras) |-> i],
                    LAMBDA i : \E k \in DOMAIN paras[i], kw \in triggers :
                                   TextHas(paras[i][k], kw))
    IN IF hits = <<>> THEN 0 ELSE Head(hits)

\* The branch of the if/elif chain a part of the info line takes.
classify_part(part, quals) ==
    IF Len(part) = 1 /\ Lower(part[1]) \in {"male", "female"} THEN "gender"
    ELSE IF \E spec \in {"practitioner", "specialist", "surgeon", "consultant"} :
                TextHas(part, spec)
    THEN "specialties"
    ELSE IF StartsTwoCapitals(part) \/ \E qual \in quals : UpperHas(part, qual)
    THEN "qualifications"
    ELSE "dropped"

\* `if part not in list: list.append(part)` over the parts in order.
append_new(parts) ==
    LET keep == SelectSeq([i \in 1..Len(parts) |-> i],
                    LAMBDA i : \A j \in 1..(i - 1) : parts[j] # parts[i])
    IN [k \in 1..Len(keep) |-> parts[keep[k]]]

\* The loop over the parts of the info line: what it leaves in doctor_info.
parse_info_line(d, parts, quals) ==
    LET of(kind) == SelectSeq(parts, LAMBDA part : classify_part(part, quals) = kind)
        genders == of("gender")
    IN [d EXCEPT !.gender = IF genders = <<>> THEN d.gender
                            ELSE Just(genders[Len(genders)][1]),
                 !.specialties = append_new(of("specialties")),
                 !.qualifications = append_new(of("qualifications"))]

\* The info step of extract_single_doctor_info and extract_single_doctor_from_row.
info_step(d, paras, triggers, quals) ==
    IF info_paragraph(paras, triggers) = 0 THEN d
    ELSE parse_info_line(d, paras[info_paragraph(paras, triggers)], quals)

RECURSIVE SplitCommas(_)
\* str.split(',') over a sequence of words and "," items: the pieces.
SplitCommas(items) ==
    LET commas == SelectSeq([i \in 1..Len(items) |-> i], LAMBDA i : items[i] = ",")
    IN IF commas = <<>> THEN <<items>>
       ELSE <<SubSeq(items, 1, commas[1] - 1)>>
                \o SplitCommas(SubSeq(items, commas[1] + 1, Len(items)))

\* re.sub(r'\s+and\s+', ', ', langs), split(','), strip, title, empty pieces
\* dropped: items are lower-cased words and "," items of a stripped string.
language_list(items) ==
    LET n == Len(items)
        subbed == [i \in 1..n |->
                      IF items[i] = "and" /\ 1 < i /\ i < n THEN "," ELSE items[i]]
        pieces == SelectSeq(SplitCommas(subbed), LAMBDA piece : piece # <<>>)
    IN [k \in 1..Len(pieces) |-> [j \in 1..Len(pieces[k]) |-> TitleWord(pieces[k][j])]]

\* The text of a paragraph lower-cased, as words and "," items.
paragraph_items(parts) ==
    Flatten([k \in 1..Len(parts) |->
                (IF k > 1 THEN <<",">> ELSE <<>>)
                    \o [j \in 1..Len(parts[k]) |-> Lower(parts[k][j])]])

\* The languages step of extract_single_doctor_info (lines 492-503).
languages_step(d, paras) ==
    LET hits == SelectSeq([i \in 1..Len(paras) |-> i],
                    LAMBDA i : \E k \in DOMAIN paras[i] :
                                   TextHas(paras[i][k], "speaks")
                                       \/ TextHas(paras[i][k], "languages"))
    IN IF hits = <<>> THEN d
       ELSE LET items == paragraph_items(paras[Head(hits)])
            IN IF \E i \in DOMAIN items : items[i] = "speaks"
               THEN [d EXCEPT !.languages =
                        language_list(SelectSeq(items, LAMBDA x : x # "speaks"))]
               ELSE d

\* The rating and review steps of extract_single_doctor_info (lines 524-537).
rating_step(d, e) ==
    [d EXCEPT !.rating = IF e.rating_elem.some
                         THEN FirstNumber(e.rating_elem.val, FirstDecimal) ELSE Nothing,
              !.review_count = IF e.review_elem.some
                               THEN FirstNumber(e.review_elem.val, FirstInteger)
                               ELSE Nothing]

(***************************************************************************)
(* Documents                                                               *)
(*                                                                         *)
(* A document (the parsed page) is a record:                               *)
(*   elems   the elements that selectors can match, in document order      *)
(*   links   the <a href> elements, in document order                      *)
(*   title, h1, meta, addr, tel, mailto, phrases: see extract_clinic_info  *)
(* An element is a record:                                                 *)
(*   classes its class attribute (a set of class names, {} when absent)    *)
(*   testid  its data-testid attribute ("" when absent)                    *)
(*   nodes   the descendants that a name selector can match, in document   *)
(*           order: sels (the name selectors matching the node), tag, text *)
(*           (get_text(strip=True)), href ("" when absent)                 *)
(*   paras   its <p> descendants in document order, each as its parts      *)
(*   profile_text  whether the paragraphs sit in a                         *)
(*           .DoctorAvailabilityRow-profileText descendant                 *)
(*   rating_elem, review_elem  the text of the first descendant a rating / *)
(*           review selector finds (Nothing: no such descendant)           *)
(*   text    element.get_text(), as words                                  *)
(* No element of the model carries data-component or sits inside a         *)
(* .practitioner-list element.                                             *)
(***************************************************************************)
Cls(c) == [t |-> "class", v |-> c]
ClsHas(x) == [t |-> "class*=", v |-> x]
TestId(x) == [t |-> "data-testid=", v |-> x]
TestIdHas(x) == [t |-> "data-testid*=", v |-> x]
CompHas(x) == [t |-> "data-component*=", v |-> x]
Desc(a, c) == [t |-> "descendant", v |-> c, anc |-> a]

\* x in c, for the class names and data-testid values of the model.
HasSubstring(x, c) ==
    \/ x = "doctor" /\ c \in {"doctor-card", "doctor-item", "doctor-profile"}
    \/ x = "practitioner" /\ c \in {"practitioner-card", "practitioner"}
    \/ x = "provider" /\ c \in {"provider-card"}

\* Whether CSS selector sel selects element e.
Matches(e, sel) ==
    CASE sel.t = "class" -> sel.v \in e.classes
      [] sel.t = "class*=" -> \E c \in e.classes : HasSubstring(sel.v, c)
      [] sel.t = "data-testid=" -> e.testid = sel.v
      [] sel.t = "data-testid*=" -> HasSubstring(sel.v, e.testid)
      [] OTHER -> FALSE

\* The indices 1..n that pass Test, in order.
SelectIdx(n, Test(_)) == SelectSeq([i \in 1..n |-> i], Test)

\* soup.select(selector): the matching elements (their indices), in document order.
Select(doc, sel) == SelectIdx(Len(doc.elems), LAMBDA i : Matches(doc.elems[i], sel))

\* element.select_one(selector) over the name nodes: 0 when nothing matches.
select_one(e, sel) ==
    LET hits == SelectIdx(Len(e.nodes), LAMBDA i : sel \in e.nodes[i].sels)
    IN IF hits = <<>> THEN 0 ELSE Head(hits)

\* urljoin(base_url, href) / the startswith('/') test of the Selenium scraper.
urljoin(href) ==
    CASE href = "/doctors/john-smith" -> "https://www.hotdoc.com.au/doctors/john-smith"
      [] OTHER -> href

(***************************************************************************)
(* HotDocScraper.extract_single_doctor_info, extract_doctor_info           *)
(***************************************************************************)
\* The doctor_info dictionary as created, with the keys the exports read.
NewDoctorInfo(clinic_info) ==
    [name |-> Nothing, title |-> Nothing, specialties |-> <<>>, qualifications |-> <<>>,
     languages |-> <<>>, gender |-> Nothing, bio |-> Nothing, rating |-> Nothing,
     review_count |-> Nothing, profile_url |-> Nothing, clinic_info |-> clinic_info]

name_selectors ==
    <<".DoctorAvailabilityRow-doctorLink", ".DoctorAvailabilityRow-profileTitle a", "h2 a",
      ".doctor-name", ".practitioner-name", ".provider-name", "h3", "h4", "h5", ".name",
      "[data-testid=doctor-name]">>

\* A name step that goes on to later selectors while the cleaned name is empty.
name_step_first_named(e, clinic_info) ==
    LET hit == SelectSeq(name_selectors, LAMBDA sel :
                   select_one(e, sel) # 0
                   /\ clean_doctor_name(e.nodes[select_one(e, sel)].text) # <<>>)
    IN IF hit = <<>> THEN NewDoctorInfo(clinic_info)
       ELSE LET name_elem == e.nodes[select_one(e, Head(hit))]
            IN [NewDoctorInfo(clinic_info) EXCEPT
                   !.name = Just(clean_doctor_name(name_elem.text)),
                   !.title = Just(extract_title(name_elem.text)),
                   !.profile_url = IF name_elem.tag = "a" /\ name_elem.href # ""
                                   THEN Just(urljoin(name_elem.href)) ELSE Nothing]

\* The name step of extract_single_doctor_info (lines 437-462).
name_step(e, clinic_info) ==
    LET hit == SelectSeq(name_selectors, LAMBDA sel : select_one(e, sel) # 0)
    IN IF hit = <<>> THEN NewDoctorInfo(clinic_info)
       ELSE LET name_elem == e.nodes[select_one(e, Head(hit))]
            IN [NewDoctorInfo(clinic_info) EXCEPT
                   !.name = Just(clean_doctor_name(name_elem.text)),
                   !.title = Just(extract_title(name_elem.text)),
                   !.profile_url = IF name_elem.tag = "a" /\ name_elem.href # ""
                                   THEN Just(urljoin(name_elem.href)) ELSE Nothing]

\* extract_single_doctor_info(doctor_elem, clinic_info): the name, the info
\* line, the languages, the rating and the review count.  (No element of the
\* model has a bio block or an interests list.)
extract_single_doctor_info(e, clinic_info) ==
    rating_step(
        languages_step(
            info_step(name_step(e, clinic_info), e.paras,
                      {"practitioner", "doctor", "specialist"},
                      {"MBBS", "MD", "FRACGP", "FRACS", "PHD", "BMBS"}),
            e.paras),
        e)

doctor_selectors ==
    <<Cls("DoctorAvailabilityRow"), Cls("doctor-card"), Cls("practitioner-card"),
      Cls("provider-card"), Cls("doctor-profile"), TestId("doctor-card"),
      Desc("practitioner-list", "practitioner"), Cls("doctor-item")>>

\* The selector loop of extract_doctor_info without its break: the last selector
\* that matches wins.
selector_elements_no_break(doc) ==
    LET hit == SelectSeq(doctor_selectors, LAMBDA sel : Select(doc, sel) # <<>>)
    IN IF hit = <<>> THEN <<>> ELSE Select(doc, hit[Len(hit)])

\* The selector loop of extract_doctor_info (lines 380-386): the matches of the
\* first selector that matches anything.
selector_elements(doc) ==
    LET hit == SelectSeq(doctor_selectors, LAMBDA sel : Select(doc, sel) # <<>>)
    IN IF hit = <<>> THEN <<>> ELSE Select(doc, Head(hit))

\* The container of a link (lines 395-399): its nearest ancestor with a class
\* attribute, <<>> when it has none.  link.anc lists the ancestors, nearest first.
link_parent(doc, link) ==
    LET with_class == SelectSeq(link.anc, LAMBDA i : doc.elems[i].classes # {})
    IN IF with_class = <<>> THEN <<>> ELSE <<Head(with_class)>>

\* The link fallback of extract_doctor_info (lines 388-399).
link_elements(doc) ==
    Flatten([k \in 1..Len(doc.links) |->
                IF doc.links[k].doctor_href THEN link_parent(doc, doc.links[k]) ELSE <<>>])

\* doctor_elements with one more fallback: every element of the page when no
\* strategy matched.
doctor_elements_or_all(doc) ==
    IF selector_elements(doc) # <<>> THEN selector_elements(doc)
    ELSE IF link_elements(doc) # <<>> THEN link_elements(doc)
    ELSE [i \in 1..Len(doc.elems) |-> i]

\* doctor_elements as extract_doctor_info builds it before extracting.
doctor_elements(doc) ==
    IF selector_elements(doc) # <<>> THEN selector_elements(doc) ELSE link_elements(doc)

\* The admission test of extract_doctor_info left out: every candidate is kept.
keep_named_all(infos) == infos

\* `if doctor_info and doctor_info.get('name')`: the records with a truthy name.
keep_named(infos) == SelectSeq(infos, LAMBDA d : Truthy(d.name))

\* extract_doctor_info(soup, clinic_info)
extract_doctor_info(doc, clinic_info) ==
    LET cand == doctor_elements(doc)
    IN keep_named([k \in 1..Len(cand) |->
                      extract_single_doctor_info(doc.elems[cand[k]], clinic_info)])

(***************************************************************************)
(* The name patterns of the Selenium scraper, over words                   *)
(*                                                                         *)
(* [A-Z][a-z]+ matches a word of the model from its first letter or not at *)
(* all; words are separated by single spaces.                              *)
(***************************************************************************)
\* The prefix of w that [A-Z][a-z]+ matches, "" when it matches nothing.
CapPrefix(w) ==
    CASE w \in {"Dr", "John", "Smith", "Lee", "Doctor", "Ms", "Mr", "Mrs", "Miss", "Prof",
                "Professor", "Our", "Practitioner", "General", "Female", "Camden", "Skin",
                "Surgeon", "Speaks", "English", "Mandarin", "Languages", "No"} -> w
      [] w = "Practitioner," -> "Practitioner"
      [] w = "Female," -> "Female"
      [] w = "Camden," -> "Camden"
      [] w = "Doctor," -> "Doctor"
      [] w = "Surgeon," -> "Surgeon"
      [] w = "English," -> "English"
      [] w = "Dr." -> "Dr"
      [] w = "Prof." -> "Prof"
      [] w = "Smith," -> "Smith"
      [] w = "Lee," -> "Lee"
      [] OTHER -> ""

\* [A-Z][a-z]+ matches the whole word, so that \s+ can follow it.
PureCap(w) == CapPrefix(w) # "" /\ CapPrefix(w) = w

\* [A-Z][a-z]+ followed by a comma.
CapThenComma(w) ==
    w \in {"Smith,", "Lee,", "Practitioner,", "Female,", "Camden,", "Doctor,", "Surgeon,",
           "English,"}

RECURSIVE CapRunEnd(_, _)
\* The last word of [A-Z][a-z]+(?:\s+[A-Z][a-z]+)* matched from word j on.
CapRunEnd(ws, j) ==
    IF PureCap(ws[j]) /\ j < Len(ws) /\ CapPrefix(ws[j + 1]) # ""
    THEN CapRunEnd(ws, j + 1) ELSE j

\* The matched text of words j..k.
CapText(ws, j, k) == [i \in 1..(k - j + 1) |-> CapPrefix(ws[j + i - 1])]

\* r'Dr\.?\s+([A-Z][a-z]+(?:\s+[A-Z][a-z]+)*)': the starts of a match at or after word k.
DrStarts(ws, k) ==
    SelectIdx(Len(ws), LAMBDA i :
        i >= k /\ ws[i] \in {"Dr", "Dr."} /\ i < Len(ws) /\ CapPrefix(ws[i + 1]) # "")

\* r'([A-Z][a-z]+\s+[A-Z][a-z]+)(?:\s*,\s*(?:kw1|kw2|...))'
CommaStarts(ws, k, keywords) ==
    SelectIdx(Len(ws), LAMBDA i :
        i >= k /\ i + 2 <= Len(ws) /\ PureCap(ws[i]) /\ CapThenComma(ws[i + 1])
        /\ ws[i + 2] \in keywords)

\* r'([A-Z][a-z]+(?:\s+[A-Z][a-z]+){1,2})'
PairStarts(ws) ==
    SelectIdx(Len(ws), LAMBDA i :
        i < Len(ws) /\ PureCap(ws[i]) /\ CapPrefix(ws[i + 1]) # "")

\* Whether any of 'doctor', 'dr ', 'practitioner', 'gp', 'specialist' is in
\* the lower-cased text.
HasDoctorKeyword(ws) ==
    \E i \in DOMAIN ws :
        \/ \E kw \in {"doctor", "practitioner", "gp", "specialist"} : WordHas(Lower(ws[i]), kw)
        \/ Lower(ws[i]) = "dr" /\ i < Len(ws)

(***************************************************************************)
(* SeleniumHotDocScraper: the extractors                                   *)
(***************************************************************************)
\* The name step of extract_single_doctor_from_row (lines 237-251).
row_name_step(e, clinic_info) ==
    LET t == select_one(e, ".DoctorAvailabilityRow-profileTitle")
    IN IF t = 0 THEN NewDoctorInfo(clinic_info)
       ELSE LET title_elem == e.nodes[t]
            IN [NewDoctorInfo(clinic_info) EXCEPT
                   !.name = Just(clean_doctor_name(title_elem.text)),
                   !.title = Just(extract_title(title_elem.text)),
                   !.profile_url = IF title_elem.link # ""
                                   THEN Just(urljoin(title_elem.link)) ELSE Nothing]

\* A lower-cased word of the text as items: a comma at its end is an item of its own.
DetachComma(w) ==
    CASE w = "practitioner," -> <<"practitioner", ",">>
      [] w = "female," -> <<"female", ",">>
      [] w = "male," -> <<"male", ",">>
      [] w = "fracgp," -> <<"fracgp", ",">>
      [] w = "mbbs," -> <<"mbbs", ",">>
      [] w = "camden," -> <<"camden", ",">>
      [] w = "doctor," -> <<"doctor", ",">>
      [] w = "surgeon," -> <<"surgeon", ",">>
      [] w = "english," -> <<"english", ",">>
      [] w = "smith," -> <<"smith", ",">>
      [] w = "lee," -> <<"lee", ",">>
      [] OTHER -> <<w>>

\* What of a lower-cased word [^.]+ takes: all of it, or what stands before its period.
BeforeDot(w) ==
    CASE w = "4.8" -> [stop |-> TRUE, items |-> <<"4">>]
      [] w = "dr." -> [stop |-> TRUE, items |-> <<"dr">>]
      [] w = "prof." -> [stop |-> TRUE, items |-> <<"prof">>]
      [] OTHER -> [stop |-> FALSE, items |-> DetachComma(w)]

\* The group of r'speaks?\s+([^.]+)' in the lower-cased row text, as items:
\* the words after the first 'speaks' up to the first period.
speaks_group(ws) ==
    LET starts == SelectSeq([i \in 1..Len(ws) |-> i],
                      LAMBDA i : Lower(ws[i]) \in {"speaks", "speak"} /\ i < Len(ws))
    IN IF starts = <<>> THEN Nothing
       ELSE LET rest == [i \in 1..(Len(ws) - starts[1]) |-> Lower(ws[starts[1] + i])]
                stops == SelectSeq([i \in 1..Len(rest) |-> i],
                             LAMBDA i : BeforeDot(rest[i]).stop)
                last == IF stops = <<>> THEN Len(rest) ELSE stops[1]
            IN Just(Flatten([i \in 1..last |-> BeforeDot(rest[i]).items]))

\* The languages step of extract_single_doctor_from_row (lines 294-302).
row_languages_step(d, ws) ==
    IF (TextHas(ws, "speaks") \/ TextHas(ws, "languages")) /\ speaks_group(ws).some
    THEN [d EXCEPT !.languages = language_list(speaks_group(ws).val)]
    ELSE d

\* extract_single_doctor_from_row(doctor_row, clinic_info): the name, the info
\* line of the profile text, the languages.  (No paragraph of the model is
\* longer than 100 characters, so no bio is found.)
extract_single_doctor_from_row(e, clinic_info) ==
    LET named == row_name_step(e, clinic_info)
        informed == IF e.profile_text
                    THEN info_step(named, e.paras,
                             {"practitioner", "doctor", "specialist", "fracgp", "mbbs"},
                             {"MBBS", "MD", "FRACGP", "FRACS", "PHD", "BMBS", "BMEDSCI"})
                    ELSE named
    IN row_languages_step(informed, e.text)

\* keyword.lower() in element_text.lower(), for the specialty keywords.
specialty_in_text(ws, keyword) ==
    CASE keyword = <<"GP">> -> TextHas(ws, "gp")
      [] keyword = <<"General", "Practitioner">> ->
            \E i \in 1..(Len(ws) - 1) :
                Lower(ws[i]) = "general" /\ WordHas(Lower(ws[i + 1]), "practitioner")
      [] keyword = <<"Specialist">> -> TextHas(ws, "specialist")
      [] keyword = <<"Surgeon">> -> TextHas(ws, "surgeon")
      [] keyword = <<"Consultant">> -> TextHas(ws, "consultant")

\* The specialties step of extract_single_doctor_info_enhanced (lines 345-349):
\* the keywords found in the text, in keyword order.
enhanced_specialties(ws) ==
    SelectSeq(<<(<<"GP">>), (<<"General", "Practitioner">>), (<<"Specialist">>),
                (<<"Surgeon">>), (<<"Consultant">>)>>,
              LAMBDA keyword : specialty_in_text(ws, keyword))

\* re.findall(r'\b[A-Z]{2,6}\b', w) for a word of the model.
capital_runs(w) ==
    CASE w \in {"FRACGP", "FRACGP,"} -> <<"FRACGP">>
      [] w \in {"MBBS", "MBBS,"} -> <<"MBBS">>
      [] w = "GP" -> <<"GP">>
      [] w = "VIC" -> <<"VIC">>
      [] w \in {"DR", "DR."} -> <<"DR">>
      [] OTHER -> <<>>

\* The qualifications step of extract_single_doctor_info_enhanced (lines
\* 351-357): every run of capitals that is a common qualification, appended.
enhanced_qualifications(ws) ==
    LET runs == Flatten([i \in 1..Len(ws) |-> capital_runs(ws[i])])
        common == SelectSeq(runs, LAMBDA qual :
                      qual \in {"MBBS", "MD", "FRACGP", "FRACS", "PhD", "BMed", "BMBS"})
    IN [k \in 1..Len(common) |-> <<common[k]>>]

\* The profile link step of extract_single_doctor_info_enhanced (lines
\* 359-368): the first link with '/doctor' or '/practitioner' in its href.
enhanced_profile_url(e) ==
    LET links == SelectSeq(e.nodes, LAMBDA node :
                     node.tag = "a" /\ node.href \in {"/doctors/john-smith"})
    IN IF links = <<>> THEN Nothing ELSE Just(urljoin(links[1].href))

\* The name step of extract_single_doctor_info_enhanced: the first of the three
\* name_patterns that matches the element's text.
enhanced_name_step(e, clinic_info) ==
    LET ws == e.text
        d == DrStarts(ws, 1)
        c == CommaStarts(ws, 1, {"GP", "Doctor", "Practitioner"})
        q == PairStarts(ws)
        name == IF d # <<>> THEN Just(CapText(ws, d[1] + 1, CapRunEnd(ws, d[1] + 1)))
                ELSE IF c # <<>> THEN Just(<<ws[c[1]], CapPrefix(ws[c[1] + 1])>>)
                ELSE IF q # <<>>
                THEN Just(CapText(ws, q[1],
                        IF PureCap(ws[q[1] + 1]) /\ q[1] + 2 <= Len(ws)
                               /\ CapPrefix(ws[q[1] + 2]) # ""
                        THEN q[1] + 2 ELSE q[1] + 1))
                ELSE Nothing
    IN [NewDoctorInfo(clinic_info) EXCEPT !.name = name]

\* extract_single_doctor_info_enhanced(doctor_elem, clinic_info)
extract_single_doctor_info_enhanced(e, clinic_info) ==
    [enhanced_name_step(e, clinic_info) EXCEPT
        !.specialties = enhanced_specialties(e.text),
        !.qualifications = enhanced_qualifications(e.text),
        !.profile_url = enhanced_profile_url(e)]

enhanced_selectors ==
    <<TestIdHas("doctor"), TestIdHas("practitioner"), ClsHas("doctor"), ClsHas("practitioner"),
      ClsHas("provider"), CompHas("doctor"), CompHas("practitioner"), Cls("booking-card"),
      Cls("appointment-card"), Cls("practitioner-card"), Cls("provider-card"), Cls("card"),
      Cls("item"), Cls("row"), Cls("list-item")>>

\* The first non-empty list of a sequence of lists, <<>> when all are empty.
FirstNonEmpty(lists) ==
    LET hit == SelectSeq(lists, LAMBDA l : l # <<>>)
    IN IF hit = <<>> THEN <<>> ELSE Head(hit)

\* soup.select('.DoctorAvailabilityRow')
row_elements(doc) == Select(doc, Cls("DoctorAvailabilityRow"))

\* The doctors the first stage of extract_doctor_info_enhanced finds (lines 145-151).
row_doctors(doc, clinic_info) ==
    LET rows == row_elements(doc)
    IN keep_named([k \in 1..Len(rows) |->
                      extract_single_doctor_from_row(doc.elems[rows[k]], clinic_info)])

\* The matches that one enhanced selector adds to all_elements (lines 187-192).
keyword_matches(doc, sel) ==
    SelectSeq(Select(doc, sel), LAMBDA i : HasDoctorKeyword(doc.elems[i].text))

\* The fallback loop with a break after the first selector that adds something.
enhanced_elements_first_only(doc) ==
    LET hit == SelectSeq(enhanced_selectors, LAMBDA sel : keyword_matches(doc, sel) # <<>>)
    IN IF hit = <<>> THEN <<>> ELSE keyword_matches(doc, Head(hit))

\* all_elements after the fallback loop of extract_doctor_info_enhanced
\* (lines 183-195): what every selector added, in selector order.
enhanced_elements(doc) ==
    Flatten([k \in 1..Len(enhanced_selectors) |-> keyword_matches(doc, enhanced_selectors[k])])

\* str(element)[:100]: elements with equal markup have equal ids; the distinct
\* elements of the model differ within their first 100 characters.
element_id(e) == e

\* The elements of all_elements that pass the seen_elements test (lines 200-204).
unseen_elements(doc, all_elements) ==
    SelectIdx(Len(all_elements), LAMBDA p :
        \A r \in 1..(p - 1) :
            element_id(doc.elems[all_elements[r]]) # element_id(doc.elems[all_elements[p]]))

\* The candidate elements extract_doctor_info_enhanced extracts from: the rows
\* when a row gave a named doctor, else all_elements.
enhanced_candidates(doc, clinic_info) ==
    IF row_doctors(doc, clinic_info) # <<>> THEN row_elements(doc) ELSE enhanced_elements(doc)

\* The doctors the second stage of extract_doctor_info_enhanced finds (lines
\* 153-208): of the keyword matches of the enhanced selectors, each extracted once.
fallback_doctors(doc, clinic_info) ==
    LET all_elements == enhanced_elements(doc)
        kept == unseen_elements(doc, all_elements)
    IN keep_named([k \in 1..Len(kept) |->
           extract_single_doctor_info_enhanced(doc.elems[all_elements[kept[k]]],
                                               clinic_info)])

\* extract_doctor_info_enhanced(soup, clinic_info)
extract_doctor_info_enhanced(doc, clinic_info) ==
    FirstNonEmpty(<<row_doctors(doc, clinic_info), fallback_doctors(doc, clinic_info)>>)

\* What extract_doctor_info_enhanced prints on the way: the number of rows it
\* found (line 147) and, when it goes on to the enhanced selectors, that it
\* does (line 155) and what they gave (line 197).
enhanced_prints(doc, clinic_info) ==
    <<"Found DoctorAvailabilityRow elements">>
        \o (IF row_doctors(doc, clinic_info) # <<>> THEN <<>>
            ELSE <<"trying enhanced selectors", "Found potential doctor elements">>)

\* soup.get_text(): outside its elements a page of the model has no text that
\* a name pattern matches.
page_words(doc) == Flatten([i \in 1..Len(doc.elems) |-> doc.elems[i].text])

RECURSIVE FindDrNames(_, _)
\* re.finditer of the 'Dr' pattern from word k on: the names, in order.
FindDrNames(ws, k) ==
    LET d == DrStarts(ws, k)
    IN IF d = <<>> THEN <<>>
       ELSE LET last == CapRunEnd(ws, d[1] + 1)
            IN <<CapText(ws, d[1] + 1, last)>> \o FindDrNames(ws, last + 1)

RECURSIVE FindCommaNames(_, _)
\* re.finditer of the 'First Last, GP' pattern from word k on.
FindCommaNames(ws, k) ==
    LET c == CommaStarts(ws, k, {"GP", "Doctor", "Practitioner", "MBBS"})
    IN IF c = <<>> THEN <<>>
       ELSE <<(<<ws[c[1]], CapPrefix(ws[c[1] + 1])>>)>> \o FindCommaNames(ws, c[1] + 3)

\* The length test of extract_doctor_info_alternative left out.
long_enough_any(doctor_name) == TRUE

\* len(doctor_name) > 3
long_enough(doctor_name) == TextLen(doctor_name) > 3

\* extract_doctor_info_alternative(soup, clinic_info)
extract_doctor_info_alternative(doc, clinic_info) ==
    LET ws == page_words(doc)
        matches == FindDrNames(ws, 1) \o FindCommaNames(ws, 1)
        fresh == SelectIdx(Len(matches), LAMBDA p :
                     /\ long_enough(matches[p])
                     /\ \A r \in 1..(p - 1) : matches[r] # matches[p])
    IN [k \in 1..Len(fresh) |->
           [NewDoctorInfo(clinic_info) EXCEPT
               !.name = Just(matches[fresh[k]]), !.title = Just("Dr."),
               !.specialties = <<"General Practitioner">>, !.languages = <<"English">>]]

(***************************************************************************)
(* HotDocScraper.extract_clinic_info                                       *)
(*                                                                         *)
(* The clinic part of a document:                                          *)
(*   title   the <title> text split at ' - ' (Nothing: no <title>)         *)
(*   h1      the text of the first element a name selector finds           *)
(*   meta    the groups of the address pattern in the meta description     *)
(*   addr    the text of the first element an address selector finds, as   *)
(*           its comma-separated parts, each a sequence of words           *)
(*   phone_elem, email_elem  href ("" when absent) and text of the first   *)
(*           element a phone / email selector finds                        *)
(*   phrases the keywords that occur in the lower-cased page text          *)
(* An address is kept as its comma-separated parts.                        *)
(***************************************************************************)
\* The clinic_info dictionary created with an empty URL.
NewClinicInfoNoUrl(url) ==
    [clinic_name |-> Nothing, address |-> Nothing, suburb |-> Nothing, state |-> Nothing,
     postcode |-> Nothing, phone |-> Nothing, email |-> Nothing, services |-> <<>>,
     bulk_billing |-> Nothing, clinic_url |-> ""]

\* The clinic_info dictionary as created (the keys never assigned later are left out).
NewClinicInfo(url) ==
    [clinic_name |-> Nothing, address |-> Nothing, suburb |-> Nothing, state |-> Nothing,
     postcode |-> Nothing, phone |-> Nothing, email |-> Nothing, services |-> <<>>,
     bulk_billing |-> Nothing, clinic_url |-> url]

\* The groups of r'([^-]+)-([A-Z]{2,3})-(\d{4})' in the first path segment after
\* /medical-centres/ (Nothing: the URL has no such segment).
UrlLocation(url) ==
    CASE url = "u1" -> Just([slug |-> "armadale", state |-> "VIC", postcode |-> "3143"])
      [] url = "u3" -> Just([slug |-> "brisbane", state |-> "QLD", postcode |-> "4000"])
      [] url = "u4" -> Just([slug |-> "sydney", state |-> "NSW", postcode |-> "2000"])
      [] url = "u5" -> Just([slug |-> "melbourne", state |-> "VIC", postcode |-> "3000"])
      [] OTHER -> Nothing

\* slug.replace('_', ' ').title()
TitleCase(slug) ==
    CASE slug = "armadale" -> "Armadale"
      [] slug = "brisbane" -> "Brisbane"
      [] slug = "sydney" -> "Sydney"
      [] slug = "melbourne" -> "Melbourne"
      [] OTHER -> slug

RECURSIVE PartsLen(_)
PartsLen(parts) == IF parts = <<>> THEN 0 ELSE TextLen(Head(parts)) + PartsLen(Tail(parts))

\* len() of an address: its parts joined by ', '.
AddrLen(parts) == IF parts = <<>> THEN 0 ELSE PartsLen(parts) + 2 * (Len(parts) - 1)

\* f"{suburb}, {state} {postcode}"
FormatAddress(suburb, state, postcode) == <<suburb, <<state, postcode>>>>

\* 'hotdoc' in name_text.lower()
MentionsHotdoc(name_text) == name_text \in {"Welcome to HotDoc", "HotDoc"}

\* Lines 217-241: the name from the title, else from the first heading.
clinic_name_step(doc, c) ==
    LET from_title == IF doc.title.some /\ Len(doc.title.val) >= 2
                      THEN Just(doc.title.val[1]) ELSE Nothing
    IN IF TruthyStr(from_title) THEN [c EXCEPT !.clinic_name = from_title]
       ELSE IF TruthyStr(doc.h1) /\ ~MentionsHotdoc(doc.h1.val)
       THEN [c EXCEPT !.clinic_name = doc.h1]
       ELSE [c EXCEPT !.clinic_name = from_title]

\* Lines 245-254: the address from the meta description.
meta_step(doc, c) ==
    IF doc.meta.some
    THEN [c EXCEPT !.suburb = Just(doc.meta.val.suburb), !.state = Just(doc.meta.val.state),
                   !.postcode = Just(doc.meta.val.postcode),
                   !.address = Just(FormatAddress(doc.meta.val.suburb, doc.meta.val.state,
                                                  doc.meta.val.postcode))]
    ELSE c

\* Lines 257-268: the address from the URL when the meta description gave none.
url_step(url, c) ==
    IF ~Truthy(c.address) /\ UrlLocation(url).some
    THEN LET m == UrlLocation(url).val
         IN [c EXCEPT !.suburb = Just(<<TitleCase(m.slug)>>), !.state = Just(m.state),
                      !.postcode = Just(m.postcode),
                      !.address = Just(FormatAddress(<<TitleCase(m.slug)>>, m.state, m.postcode))]
    ELSE c

\* Line 284 raises TypeError: len(clinic_info.get('address', '')) with the key
\* present and its value None, reached when the element's text is not empty.
address_step_raises(doc, c) == Truthy(doc.addr) /\ ~c.address.some

\* Lines 280-295: the address element, when its text is longer than the address so far.
address_step(doc, c) ==
    IF Truthy(doc.addr) /\ AddrLen(doc.addr.val) > AddrLen(c.address.val)
    THEN LET address_parts == doc.addr.val
             n == Len(address_parts)
             c1 == [c EXCEPT !.address = Just(address_parts)]
         IN IF n >= 3
            THEN LET state_postcode == address_parts[n - 1]
                     c2 == [c1 EXCEPT !.suburb = Just(address_parts[n - 2])]
                 IN IF Len(state_postcode) >= 2
                    THEN [c2 EXCEPT !.state = Just(state_postcode[1]),
                                    !.postcode = Just(state_postcode[2])]
                    ELSE c2
            ELSE c1
    ELSE c

\* re.sub(r'[^\d\+\(\)\s\-]', '', phone_text)
PhoneClean(phone_text) ==
    CASE phone_text = "0398221111" -> "0398221111"
      [] phone_text = "Call (03) 9822 1111" -> " (03) 9822 1111"
      [] OTHER -> ""

\* href.replace('tel:', '') and href.replace('mailto:', '')
StripScheme(href) ==
    CASE href = "tel:0398221111" -> "0398221111"
      [] href = "mailto:info@clinic.example" -> "info@clinic.example"
      [] OTHER -> href

\* Lines 306-318: the phone number the page gives.
phone_of(doc) ==
    IF doc.phone_elem.some
    THEN LET phone_elem == doc.phone_elem.val
             phone_text == IF phone_elem.href # "" THEN StripScheme(phone_elem.href)
                           ELSE phone_elem.text
         IN IF PhoneClean(phone_text) # "" THEN Just(PhoneClean(phone_text)) ELSE Nothing
    ELSE Nothing

\* Lines 327-334: the email address the page gives.
email_of(doc) ==
    IF doc.email_elem.some
    THEN IF doc.email_elem.val.href # "" THEN Just(StripScheme(doc.email_elem.val.href))
         ELSE Just(doc.email_elem.val.text)
    ELSE Nothing

service_keywords ==
    <<"general practice", "family medicine", "bulk billing", "vaccination", "health check",
      "women's health", "men's health", "child health", "chronic disease", "mental health",
      "skin checks", "travel medicine", "sports medicine", "pathology", "radiology",
      "physiotherapy">>

\* keyword.title()
KeywordTitle(keyword) ==
    CASE keyword = "general practice" -> "General Practice"
      [] keyword = "bulk billing" -> "Bulk Billing"
      [] keyword = "vaccination" -> "Vaccination"
      [] keyword = "women's health" -> "Women'S Health"
      [] OTHER -> keyword

\* Lines 344-350: the services named in the page text.
services_of(doc) ==
    LET found == SelectSeq(service_keywords, LAMBDA keyword : keyword \in doc.phrases)
    IN [k \in 1..Len(found) |-> KeywordTitle(found[k])]

\* Lines 353-354
bulk_billing_of(doc) == \E keyword \in {"bulk bill", "bulk billing", "medicare"} : keyword \in doc.phrases

\* Lines 297-354: phone, email, services and bulk billing.
contact_steps(doc, c) ==
    [c EXCEPT !.phone = phone_of(doc), !.email = email_of(doc),
              !.services = services_of(doc), !.bulk_billing = Just(bulk_billing_of(doc))]

\* extract_clinic_info(soup, url): one try block around every step; the except
\* clause logs and the dictionary is returned as far as it was filled.
extract_clinic_info(doc, url) ==
    LET c3 == url_step(url, meta_step(doc, clinic_name_step(doc, NewClinicInfo(url))))
    IN IF address_step_raises(doc, c3) THEN c3
       ELSE contact_steps(doc, address_step(doc, c3))

\* The except clause of scrape_medical_center letting the exception through.
scrape_failed_reraise(url) == [raised |-> TRUE, doctors |-> <<>>]

\* The except clause of scrape_medical_center (lines 820-822).
scrape_failed(url) == [raised |-> FALSE, doctors |-> <<>>]

\* HotDocScraper.scrape_medical_center(url)
scrape_medical_center(url, answer) ==
    LET soup == get_page(answer.responses, DefaultMaxRetries)
    IN IF soup.kind = "raise" THEN scrape_failed(url)
       ELSE IF soup.kind = "none" THEN [raised |-> FALSE, doctors |-> <<>>]
       ELSE [raised |-> FALSE,
             doctors |-> extract_doctor_info(answer.doc, extract_clinic_info(answer.doc, url))]

\* What the Selenium scrape_medical_center returns and prints (lines 112-135),
\* given what get_page_with_selenium returned, what the except clause gives,
\* what extract_doctor_info_enhanced returned and printed, and what
\* extract_doctor_info_alternative returns when it is called.
selenium_scrape_result(soup, failed, doctors, prints, alternative) ==
    IF soup.kind = "raise"
    THEN [raised |-> failed.raised, doctors |-> failed.doctors,
          prints |-> <<"Error scraping medical center">>]
    ELSE IF soup.kind = "none" THEN [raised |-> FALSE, doctors |-> <<>>, prints |-> <<>>]
    ELSE IF doctors = <<>>
    THEN [raised |-> FALSE, doctors |-> alternative,
          prints |-> prints \o <<"trying alternative selectors",
                                 "Alternative extraction found", "Scraped">>]
    ELSE [raised |-> FALSE, doctors |-> doctors, prints |-> prints \o <<"Scraped">>]

\* The Selenium scrape_medical_center from the page on (lines 118-131).
selenium_scrape_page(soup, failed, doc, clinic_info) ==
    selenium_scrape_result(soup, failed, extract_doctor_info_enhanced(doc, clinic_info),
                           enhanced_prints(doc, clinic_info),
                           extract_doctor_info_alternative(doc, clinic_info))

\* A Selenium scrape_medical_center that runs the free-text patterns after the
\* other stages in any case and returns the records of all stages.
selenium_scrape_medical_center_merged(drv, url, answer) ==
    [raised |-> FALSE,
     doctors |-> extract_doctor_info_enhanced(answer.doc, extract_clinic_info(answer.doc, url))
                    \o extract_doctor_info_alternative(answer.doc,
                                                       extract_clinic_info(answer.doc, url)),
     prints |-> enhanced_prints(answer.doc, extract_clinic_info(answer.doc, url))
                    \o <<"trying alternative selectors", "Alternative extraction found",
                         "Scraped">>]

\* SeleniumHotDocScraper.scrape_medical_center(url); prints is what the stages
\* print on the way.
selenium_scrape_medical_center(drv, url, answer) ==
    selenium_scrape_page(
        get_page_with_selenium(drv, "body",
            [nav |-> answer.browser.nav, wait |-> answer.browser.wait,
             source |-> answer.browser.source, responses |-> answer.responses]),
        scrape_failed(url), answer.doc, extract_clinic_info(answer.doc, url))

(***************************************************************************)
(* The documents and URLs the extractors are applied to                    *)
(***************************************************************************)
\* Bound: a document has at most MaxElems candidate elements.
MaxElems == 2

\* Bound: a document has at most MaxLinks links.
MaxLinks == 2

Urls == {"u1", "u2", "u3"}

\* An element with one name block: a HotDoc row title (an <h2> around a link),
\* an <h3>, or no name node at all, only text.
Elem(classes, style, words) ==
    [classes |-> classes, testid |-> "",
     nodes |-> CASE style = "row" ->
                     <<[sels |-> {".DoctorAvailabilityRow-profileTitle"}, tag |-> "h2",
                        text |-> words, href |-> "", link |-> "/doctors/john-smith"],
                       [sels |-> {".DoctorAvailabilityRow-doctorLink",
                                  ".DoctorAvailabilityRow-profileTitle a", "h2 a"},
                        tag |-> "a", text |-> words, href |-> "/doctors/john-smith",
                        link |-> ""]>>
                 [] style = "h3" ->
                     <<[sels |-> {"h3"}, tag |-> "h3", text |-> words, href |-> "",
                        link |-> ""]>>
                 [] OTHER -> <<>>,
     paras |-> <<>>, profile_text |-> FALSE, rating_elem |-> Nothing,
     review_elem |-> Nothing, text |-> words]

NameBlocks ==
    {<<"row", <<"Dr", "John", "Smith">>>>, <<"row", <<"Dr.">>>>,
     <<"h3", <<"Dr", "John", "Smith">>>>, <<"h3", <<"Ms", "Lee,", "GP">>>>,
     <<"text", <<"Dr", "John", "Smith">>>>, <<"text", <<"Our", "team">>>>,
     <<"text", <<"our", "doctor">>>>}

ElemClasses == {{"DoctorAvailabilityRow"}, {"doctor-card"}, {"card", "practitioner-card"}, {}}

Elems == {Elem(cl, nb[1], nb[2]) : cl \in ElemClasses, nb \in NameBlocks}

SeqsUpTo(S, n) == UNION {[1..k -> S] : k \in 0..n}

BaseDoc ==
    [elems |-> <<>>, links |-> <<>>,
     title |-> Just(<<"Armadale Family Clinic", "Book Doctors Online with HotDoc">>),
     h1 |-> Nothing, meta |-> Nothing, addr |-> Nothing, phone_elem |-> Nothing,
     email_elem |-> Nothing, phrases |-> {}]

\* Documents whose elements the selector lists can match.
SelectorDocs == {[BaseDoc EXCEPT !.elems = es] : es \in SeqsUpTo(Elems, MaxElems)}

\* Documents for the link fallback: no element matches a doctor selector; a
\* link sits in no element, in the last one, or in all of them (nested, the
\* last one innermost).
LinkElems == {Elem(cl, "h3", <<"Dr", "John", "Smith">>) : cl \in {{"section"}, {}, {"card"}}}
LinksOf(n) ==
    {[doctor_href |-> h, anc |-> a] :
        h \in BOOLEAN,
        a \in {<<>>} \cup (IF n = 0 THEN {} ELSE {<<n>>, [k \in 1..n |-> n + 1 - k]})}
LinkDocs ==
    UNION {{[BaseDoc EXCEPT !.elems = es, !.links = ls] :
                ls \in SeqsUpTo(LinksOf(Len(es)), MaxLinks)} :
           es \in SeqsUpTo(LinkElems, MaxElems)}

\* Documents that differ in the clinic part.
ClinicDocs ==
    {[BaseDoc EXCEPT !.title = t, !.h1 = h, !.meta = m, !.addr = a, !.phone_elem = p,
                     !.email_elem = e, !.phrases = ph] :
        t \in {Nothing, Just(<<"HotDoc">>),
               Just(<<"Armadale Family Clinic", "Book Doctors Online with HotDoc">>)},
        h \in {Nothing, Just("City Medical"), Just("Welcome to HotDoc")},
        m \in {Nothing, Just([suburb |-> <<"Armadale">>, state |-> "VIC", postcode |-> "3143"])},
        a \in {Nothing, Just(<<>>), Just(<<(<<"Armadale">>)>>),
               Just(<<(<<"1", "High", "St", "Armadale">>), (<<"VIC", "3143">>)>>),
               Just(<<(<<"1", "High", "St">>), (<<"Armadale">>), (<<"VIC", "3143">>),
                      (<<"Australia">>)>>)},
        p \in {Nothing, Just([href |-> "tel:0398221111", text |-> ""]),
               Just([href |-> "", text |-> "Call (03) 9822 1111"])},
        e \in {Nothing, Just([href |-> "mailto:info@clinic.example", text |-> ""])},
        ph \in {{}, {"general practice", "medicare"}, {"bulk billing", "bulk bill"}}}

(***************************************************************************)
(* The extractors applied to one document                                  *)
(***************************************************************************)
ExtractInit ==
    /\ pc = "call"
    /\ inp \in {[doc |-> d, url |-> "u1"] : d \in SelectorDocs \cup LinkDocs}
                \cup {[doc |-> d, url |-> u] : d \in ClinicDocs, u \in Urls}
    /\ out = <<>>
    /\ SelIdle /\ RunIdle

\* extract_clinic_info(soup, url)
ExtractClinic ==
    /\ pc = "call"
    /\ out' = [fn |-> "extract_clinic_info", clinic_info |-> extract_clinic_info(inp.doc, inp.url)]
    /\ pc' = "done"
    /\ UNCHANGED <<inp, selVars, runVars>>

\* extract_doctor_info(soup, clinic_info)
ExtractDoctors ==
    /\ pc = "call"
    /\ out' = [fn |-> "extract_doctor_info", elements |-> doctor_elements(inp.doc),
               doctors |-> extract_doctor_info(inp.doc, extract_clinic_info(inp.doc, inp.url))]
    /\ pc' = "done"
    /\ UNCHANGED <<inp, selVars, runVars>>

\* extract_doctor_info_enhanced(soup, clinic_info)
ExtractEnhanced ==
    /\ pc = "call"
    /\ LET clinic_info == extract_clinic_info(inp.doc, inp.url)
       IN out' = [fn |-> "extract_doctor_info_enhanced",
                  elements |-> enhanced_candidates(inp.doc, clinic_info),
                  doctors |-> extract_doctor_info_enhanced(inp.doc, clinic_info)]
    /\ pc' = "done"
    /\ UNCHANGED <<inp, selVars, runVars>>

\* extract_doctor_info_alternative(soup, clinic_info)
ExtractAlternative ==
    /\ pc = "call"
    /\ out' = [fn |-> "extract_doctor_info_alternative",
               doctors |-> extract_doctor_info_alternative(inp.doc,
                               extract_clinic_info(inp.doc, inp.url))]
    /\ pc' = "done"
    /\ UNCHANGED <<inp, selVars, runVars>>

\* HotDocScraper.scrape_medical_center(url), the page fetched at the first attempt.
ScrapeCenter ==
    /\ pc = "call"
    /\ LET r == scrape_medical_center(inp.url, [responses |-> <<"ok", "ok", "ok">>,
                                                doc |-> inp.doc])
       IN out' = [fn |-> "scrape_medical_center", raised |-> r.raised, doctors |-> r.doctors]
    /\ pc' = "done"
    /\ UNCHANGED <<inp, selVars, runVars>>

\* SeleniumHotDocScraper.scrape_medical_center(url), the page loaded by the browser.
ScrapeCenterSelenium ==
    /\ pc = "call"
    /\ LET r == selenium_scrape_medical_center("chrome", inp.url,
                    [browser |-> [nav |-> "ok", wait |-> "found", source |-> "ok"],
                     responses |-> <<"ok", "ok", "ok">>, doc |-> inp.doc])
       IN out' = [fn |-> "SeleniumHotDocScraper.scrape_medical_center", raised |-> r.raised,
                  doctors |-> r.doctors, prints |-> r.prints]
    /\ pc' = "done"
    /\ UNCHANGED <<inp, selVars, runVars>>

ExtractNext ==
    \/ ExtractClinic \/ ExtractDoctors \/ ExtractEnhanced \/ ExtractAlternative
    \/ ScrapeCenter \/ ScrapeCenterSelenium
SpecExtract == ExtractInit /\ [][ExtractNext]_vars

Returned(fn) == pc = "done" /\ out.fn = fn

\* What each strategy of the plain scraper matches: the selectors in order,
\* then the link fallback.
PlainStrategies(doc) ==
    [k \in 1..Len(doctor_selectors) |-> Select(doc, doctor_selectors[k])]
        \o <<link_elements(doc)>>

\* What each strategy of the Selenium scraper matches: the rows, then the
\* enhanced selectors in order.
EnhancedStrategies(doc) ==
    <<row_elements(doc)>>
        \o [k \in 1..Len(enhanced_selectors) |-> keyword_matches(doc, enhanced_selectors[k])]

NonEmptyCount(lists) == Len(SelectSeq(lists, LAMBDA l : l # <<>>))

C10_FieldsIndependent ==
    Returned("extract_clinic_info") =>
        /\ out.clinic_info.phone = phone_of(inp.doc)
        /\ out.clinic_info.email = email_of(inp.doc)
        /\ out.clinic_info.services = services_of(inp.doc)
        /\ out.clinic_info.bulk_billing = Just(bulk_billing_of(inp.doc))

\* C11: where the page has an address element with text and the URL path gives
\* an address too, the returned address is the element's text, and suburb,
\* state and postcode are the element's parts, not those of the URL path.
C11_StructuredAddressWins ==
    (Returned("extract_clinic_info") /\ Truthy(inp.doc.addr) /\ UrlLocation(inp.url).some) =>
        LET parts == inp.doc.addr.val
            n == Len(parts)
            u == UrlLocation(inp.url).val
        IN /\ out.clinic_info.address = Just(parts)
           /\ IF n >= 3
              THEN /\ out.clinic_info.suburb = Just(parts[n - 2])
                   /\ out.clinic_info.state = Just(parts[n - 1][1])
                   /\ out.clinic_info.postcode = Just(parts[n - 1][2])
              ELSE out.clinic_info.suburb # Just(<<TitleCase(u.slug)>>)

\* No strategy of the doctor-element ruleset matches anything in the document.
NothingMatches(doc) == NonEmptyCount(PlainStrategies(doc)) = 0

\* C12: when no doctor selector matches and no link qualifies,
\* extract_doctor_info returns an empty list, and scrape_medical_center
\* returns an empty list for the page and lets no exception through.
C12_NoMatchGivesEmptyList ==
    /\ (Returned("extract_doctor_info") /\ NothingMatches(inp.doc)) =>
          out.elements = <<>> /\ out.doctors = <<>>
    /\ (Returned("scrape_medical_center") /\ NothingMatches(inp.doc)) =>
          out.doctors = <<>> /\ ~out.raised

\* C12 witness: scrape_medical_center returned for a page that has elements
\* with doctors' names in them and a doctor link, none matched by a strategy.
C12_Witness ==
    /\ Returned("scrape_medical_center") /\ NothingMatches(inp.doc)
    /\ \E i \in DOMAIN inp.doc.elems :
          Truthy(extract_single_doctor_info(inp.doc.elems[i], Nothing).name)
    /\ \E k \in DOMAIN inp.doc.links : inp.doc.links[k].doctor_href
    /\ out.doctors = <<>>

\* The links of the document that the fallback looks at ('/doctors/' and
\* '/medical-centres/' in the href), in document order.
qualifying_links(doc) == SelectSeq(doc.links, LAMBDA link : link.doctor_href)

\* The link has an ancestor that carries a class attribute.
HasClassedAncestor(doc, link) == \E k \in DOMAIN link.anc : doc.elems[link.anc[k]].classes # {}

\* C22: when the link fallback of extract_doctor_info triggers, every
\* qualifying link contributes exactly one candidate element (its nearest
\* ancestor with a class attribute, or the link itself when it has none), so
\* that there are as many candidates as qualifying links.
C22_EveryLinkGivesCandidate ==
    (Returned("extract_doctor_info") /\ selector_elements(inp.doc) = <<>>) =>
        LET links == qualifying_links(inp.doc)
        IN  /\ Len(out.elements) = Len(links)
            /\ \A k \in DOMAIN links :
                    HasClassedAncestor(inp.doc, links[k]) =>
                        <<out.elements[k]>> = link_parent(inp.doc, links[k])

\* The part of C22 the walk upward does give: the candidates are the nearest
\* class-carrying ancestors of the qualifying links that have one, in order.
C22_ClassedAncestorsOnly ==
    (Returned("extract_doctor_info") /\ selector_elements(inp.doc) = <<>>) =>
        LET links == SelectSeq(qualifying_links(inp.doc),
                               LAMBDA link : HasClassedAncestor(inp.doc, link))
        IN  /\ Len(out.elements) = Len(links)
            /\ \A k \in DOMAIN links :
                    /\ out.elements[k] \in Range(links[k].anc)
                    /\ inp.doc.elems[out.elements[k]].classes # {}
                    /\ \A j \in DOMAIN links[k].anc :
                            inp.doc.elems[links[k].anc[j]].classes # {} =>
                                \E i \in 1..j : links[k].anc[i] = out.elements[k]

\* The stages whose start the prints of a Selenium scrape show, in the order
\* they were started: the rows always, then the enhanced selectors, then the
\* free-text patterns.
StagesRun ==
    <<"rows">>
        \o [k \in 1..Len(SelectSeq(out.prints,
                    LAMBDA line : line \in {"trying enhanced selectors",
                                            "trying alternative selectors"})) |->
               IF SelectSeq(out.prints,
                      LAMBDA line : line \in {"trying enhanced selectors",
                                              "trying alternative selectors"})[k]
                    = "trying enhanced selectors"
               THEN "enhanced" ELSE "alternative"]

\* The named doctors a stage gives when it is run on the page.
StageDoctors(stage) ==
    LET clinic_info == extract_clinic_info(inp.doc, inp.url)
    IN CASE stage = "rows" -> row_doctors(inp.doc, clinic_info)
         [] stage = "enhanced" -> fallback_doctors(inp.doc, clinic_info)
         [] stage = "alternative" -> extract_doctor_info_alternative(inp.doc, clinic_info)

\* C28: the Selenium scrape_medical_center runs its stages in the order rows,
\* enhanced selectors, free-text patterns, a later stage only when every
\* earlier one gave no named doctor, and returns the records of exactly one
\* stage, the last it ran.
C28_StagesInOrder ==
    Returned("SeleniumHotDocScraper.scrape_medical_center") =>
        LET stages == StagesRun
        IN  /\ stages = SubSeq(<<"rows", "enhanced", "alternative">>, 1, Len(stages))
            /\ \A k \in 1..(Len(stages) - 1) : StageDoctors(stages[k]) = <<>>
            /\ (Len(stages) < 3) => StageDoctors(stages[Len(stages)]) # <<>>
            /\ out.doctors = StageDoctors(stages[Len(stages)])

\* C28 witness: the rows and the enhanced selectors matched elements but
\* gave no named doctor, and the free-text patterns gave the list returned.
C28_Witness ==
    /\ Returned("SeleniumHotDocScraper.scrape_medical_center")
    /\ StagesRun = <<"rows", "enhanced", "alternative">>
    /\ row_elements(inp.doc) # <<>>
    /\ enhanced_elements(inp.doc) # <<>>
    /\ out.doctors # <<>>

\* C28, an earlier stage: the enhanced selectors gave the list returned on a
\* page where the free-text patterns would have given doctors too.
C28_WitnessEnhanced ==
    /\ Returned("SeleniumHotDocScraper.scrape_medical_center")
    /\ StagesRun = <<"rows", "enhanced">>
    /\ out.doctors # <<>>
    /\ StageDoctors("alternative") # <<>>

\* C19: the clinic record extract_clinic_info returns carries the URL it was
\* called with, also when a step raised part-way, and every practitioner
\* record built from the page references a clinic record with that URL.
C19_ClinicUrlPresent ==
    /\ Returned("extract_clinic_info") => out.clinic_info.clinic_url = inp.url
    /\ (pc = "done" /\ out.fn # "extract_clinic_info") =>
          \A k \in DOMAIN out.doctors : out.doctors[k].clinic_info.clinic_url = inp.url

\* C19 witness: extract_clinic_info returned after its address step raised.
C19_Witness ==
    /\ Returned("extract_clinic_info")
    /\ ~out.clinic_info.address.some /\ Truthy(inp.doc.addr)
    /\ ~out.clinic_info.bulk_billing.some
    /\ out.clinic_info.clinic_url = inp.url

\* C19, the practitioner records: a page gave doctors, each with the page's URL.
C19_WitnessDoctors ==
    /\ Returned("scrape_medical_center") /\ Len(out.doctors) = 2
    /\ \A k \in DOMAIN out.doctors : out.doctors[k].clinic_info.clinic_url = inp.url

(***************************************************************************)
(* SeleniumHotDocScraper.format_output_json                                *)
(*                                                                         *)
(* A value of the output is Nothing (null) or Just(v); lists are kept as   *)
(* sequences.                                                              *)
(***************************************************************************)
NotAvailable == Just("Not available")

\* dict.get(key, default): the default only when the key is absent.
Get(dict, key, default) == IF key \in DOMAIN dict THEN dict[key] ELSE default

\* The language names format_output_json looks for in a language entry, in
\* the order of its tests.
language_names == <<"English", "Mandarin", "Portuguese", "Italian", "Spanish", "Sinhalese">>

\* clean_languages (lines 683-718).  No language entry of the model is longer
\* than 50 characters, so bio_text stays None.
clean_languages(languages) ==
    LET found == append_new(Flatten([k \in 1..Len(languages) |->
                     SelectSeq(language_names,
                               LAMBDA name : name \in Range(languages[k]))]))
    IN IF found = <<>> THEN <<"English">> ELSE found

\* name.startswith(title): no name of the model begins with the letters of a
\* title unless its first word is the title.
StartsWith(name, title) == name # <<>> /\ name[1] = title

\* The entry of one doctor (lines 674-752).
doctor_entry(doctor, clinic_info) ==
    LET name == Get(doctor, "name", Just(<<"Unknown">>))
        title == Get(doctor, "title", Just(""))
        full_name == IF TruthyStr(title) /\ ~StartsWith(name.val, title.val)
                     THEN Just(<<title.val>> \o name.val) ELSE name
        specialties == Get(doctor, "specialties", <<>>)
        qualifications == Get(doctor, "qualifications", <<>>)
    IN [name |-> full_name,
        contact_number |-> Get(clinic_info, "phone", NotAvailable),
        specialisation |-> IF specialties # <<>> THEN specialties
                           ELSE <<(<<"Not specified">>)>>,
        qualifications |-> IF qualifications # <<>> THEN qualifications
                           ELSE <<(<<"Not available">>)>>,
        gender |-> IF TruthyStr(doctor.gender) THEN doctor.gender ELSE NotAvailable,
        languages |-> clean_languages(Get(doctor, "languages", <<>>)),
        profile_url |-> Get(doctor, "profile_url", NotAvailable),
        bio |-> NotAvailable,
        rating |-> IF TruthyNum(doctor.rating)
                   THEN Just([tenths |-> doctor.rating.val, of |-> 5]) ELSE NotAvailable,
        reviews |-> IF TruthyNum(doctor.review_count) THEN doctor.review_count
                    ELSE NotAvailable]

\* The clinic name format_output_json groups a record under.
group_name(doctor) == Get(doctor.clinic_info, "clinic_name", Just("Unknown Clinic"))

\* format_output_json with the clinic data of the last record of a name.
format_output_json_last_clinic(data) ==
    LET names == append_new([k \in 1..Len(data) |-> group_name(data[k])])
    IN [c \in 1..Len(names) |->
           LET doctors == SelectSeq(data, LAMBDA d : group_name(d) = names[c])
               clinic_info == doctors[Len(doctors)].clinic_info
           IN [clinic_name |-> names[c],
               address |-> Get(clinic_info, "address", NotAvailable),
               clinic_logo |-> Get(clinic_info, "logo_url", NotAvailable),
               availability_opening_hours_and_closing_hours |-> NotAvailable,
               doctors |-> [k \in 1..Len(doctors) |-> doctor_entry(doctors[k], clinic_info)]]]

\* format_output_json(doctors_data) for a list that is not empty: one entry
\* per clinic name in first-seen order, with the clinic_info of the first
\* record of the name.
format_output_json(data) ==
    LET names == append_new([k \in 1..Len(data) |-> group_name(data[k])])
    IN [c \in 1..Len(names) |->
           LET doctors == SelectSeq(data, LAMBDA d : group_name(d) = names[c])
               clinic_info == doctors[1].clinic_info
           IN [clinic_name |-> names[c],
               address |-> Get(clinic_info, "address", NotAvailable),
               clinic_logo |-> Get(clinic_info, "logo_url", NotAvailable),
               availability_opening_hours_and_closing_hours |-> NotAvailable,
               doctors |-> [k \in 1..Len(doctors) |-> doctor_entry(doctors[k], clinic_info)]]]

(***************************************************************************)
(* One doctor element: the extractors of a record, then the export         *)
(***************************************************************************)
\* The text of the paragraphs: the words of the parts, a comma attached to the
\* last word of every part but the last.
paras_text(paras) ==
    Flatten([i \in 1..Len(paras) |->
        Flatten([k \in 1..Len(paras[i]) |->
            LET part == paras[i][k]
            IN IF k < Len(paras[i]) /\ part # <<>>
               THEN SubSeq(part, 1, Len(part) - 1) \o <<WithComma(part[Len(part)])>>
               ELSE part])])

\* A doctor element with the name 'Dr John Smith', paragraphs, and rating and
\* review descendants; its text is the text of its descendants in order.
DoctorElem(style, paras, rating, review) ==
    LET e == Elem(IF style = "row" THEN {"DoctorAvailabilityRow"} ELSE {"doctor-card"},
                  style, <<"Dr", "John", "Smith">>)
    IN [e EXCEPT !.paras = paras, !.profile_text = (style = "row"),
                 !.rating_elem = rating, !.review_elem = review,
                 !.text = e.text \o paras_text(paras)
                            \o (IF rating.some THEN rating.val ELSE <<>>)
                            \o (IF review.some THEN review.val ELSE <<>>)]

InfoLines ==
    [example |-> <<(<<"General", "Practitioner">>), (<<"Female">>), (<<"FRACGP">>),
                   (<<"MBBS">>)>>,
     repeats |-> <<(<<"General", "Practitioner">>), (<<"Camden">>), (<<"MBBS">>),
                   (<<"General", "Practitioner">>), (<<"MBBS">>)>>,
     dropped |-> <<(<<"Skin", "Doctor">>), (<<"male">>), (<<"Female">>), <<>>>>,
     degrees |-> <<(<<"FRACGP">>), (<<"MBBS">>)>>,
     surgeon |-> <<(<<"Surgeon">>), (<<"General", "Practitioner">>)>>,
     speaks |-> <<(<<"Speaks", "English">>), (<<"Mandarin", "and", "english">>)>>,
     speaks_and |-> <<(<<"Speaks", "English", "and", "Mandarin">>)>>,
     languages |-> <<(<<"Languages", "English">>)>>]

ParagraphLists ==
    {<<>>, <<InfoLines.example>>, <<InfoLines.repeats>>, <<InfoLines.dropped>>,
     <<InfoLines.degrees, InfoLines.example>>, <<InfoLines.surgeon, InfoLines.speaks>>,
     <<InfoLines.example, InfoLines.speaks_and>>, <<InfoLines.languages, InfoLines.speaks>>,
     <<InfoLines.speaks>>}

RatingTexts ==
    {Nothing, Just(<<"4.8", "stars", "(23", "reviews)">>), Just(<<"0", "stars">>),
     Just(<<"No", "rating">>)}

ReviewTexts ==
    {Nothing, Just(<<"4.8", "stars", "(23", "reviews)">>), Just(<<"(23", "reviews)">>),
     Just(<<"No", "reviews">>)}

DoctorElems ==
    {DoctorElem(style, paras, rating, review) :
        style \in {"row", "h3"}, paras \in ParagraphLists, rating \in RatingTexts,
        review \in ReviewTexts}

\* The clinic records the doctor records carry: of a page with a title and a
\* phone link, of a page with a title only, of a page that gives nothing.
RecordClinics ==
    {extract_clinic_info([BaseDoc EXCEPT !.phone_elem = Just([href |-> "tel:0398221111",
                                                              text |-> ""])], "u1"),
     extract_clinic_info(BaseDoc, "u1"),
     extract_clinic_info([BaseDoc EXCEPT !.title = Nothing], "u2")}

RecordInit ==
    /\ pc = "call"
    /\ inp \in {[elem |-> e, clinic_info |-> c] : e \in DoctorElems, c \in RecordClinics}
    /\ out = <<>>
    /\ SelIdle /\ RunIdle

\* extract_single_doctor_info(doctor_elem, clinic_info)
RecordPlain ==
    /\ pc = "call"
    /\ out' = [fn |-> "extract_single_doctor_info",
               doctor_info |-> extract_single_doctor_info(inp.elem, inp.clinic_info)]
    /\ pc' = "extracted"
    /\ UNCHANGED <<inp, selVars, runVars>>

\* extract_single_doctor_from_row(doctor_row, clinic_info)
RecordFromRow ==
    /\ pc = "call"
    /\ out' = [fn |-> "extract_single_doctor_from_row",
               doctor_info |-> extract_single_doctor_from_row(inp.elem, inp.clinic_info)]
    /\ pc' = "extracted"
    /\ UNCHANGED <<inp, selVars, runVars>>

\* extract_single_doctor_info_enhanced(doctor_elem, clinic_info)
RecordEnhanced ==
    /\ pc = "call"
    /\ out' = [fn |-> "extract_single_doctor_info_enhanced",
               doctor_info |-> extract_single_doctor_info_enhanced(inp.elem,
                                                                   inp.clinic_info)]
    /\ pc' = "extracted"
    /\ UNCHANGED <<inp, selVars, runVars>>

\* format_output_json(doctors_data) on the record, when it has the name that
\* admits it to the list of doctors.
FormatJson ==
    /\ pc = "extracted"
    /\ keep_named(<<out.doctor_info>>) # <<>>
    /\ out' = [fn |-> out.fn, doctor_info |-> out.doctor_info,
               formatted |-> format_output_json(<<out.doctor_info>>)]
    /\ pc' = "formatted"
    /\ UNCHANGED <<inp, selVars, runVars>>

RecordNext == RecordPlain \/ RecordFromRow \/ RecordEnhanced \/ FormatJson
SpecRecord == RecordInit /\ [][RecordNext]_vars

Extracted(fns) == pc = "extracted" /\ out.fn \in fns

NoRepeats(list) == \A i, j \in DOMAIN list : i < j => list[i] # list[j]

\* C13: in the record any of the three extractors returns, none of the lists
\* specialties, qualifications and languages holds an entry twice.  (The
\* claim also asks for first-seen order; the repeats alone decide it.)
C13_ListsWithoutRepeats ==
    Extracted({"extract_single_doctor_info", "extract_single_doctor_from_row",
               "extract_single_doctor_info_enhanced"}) =>
        /\ NoRepeats(out.doctor_info.specialties)
        /\ NoRepeats(out.doctor_info.qualifications)
        /\ NoRepeats(out.doctor_info.languages)

\* The part of C13 that holds: the info-line extractors leave no repeated
\* specialty and no repeated qualification.
C13_InfoLineWithoutRepeats ==
    Extracted({"extract_single_doctor_info", "extract_single_doctor_from_row"}) =>
        /\ NoRepeats(out.doctor_info.specialties)
        /\ NoRepeats(out.doctor_info.qualifications)

\* The degree abbreviations the info-line extractors know.
Abbreviations == {"MBBS", "MD", "FRACGP", "FRACS", "PHD", "BMBS", "BMEDSCI"}

\* Where C15 puts a part of the qualifications line.
place_by_rule(part) ==
    IF Len(part) = 1 /\ Lower(part[1]) \in {"male", "female"} THEN "gender"
    ELSE IF \E spec \in {"practitioner", "specialist", "surgeon", "consultant"} :
                TextHas(part, spec)
    THEN "specialties"
    ELSE IF StartsTwoCapitals(part) \/ (Len(part) = 1 /\ part[1] \in Abbreviations)
    THEN "qualifications"
    ELSE "dropped"

\* The qualifications line an info-line extractor reads of the element, <<>>
\* when it finds none.
info_line_read ==
    LET triggers == IF out.fn = "extract_single_doctor_from_row"
                    THEN {"practitioner", "doctor", "specialist", "fracgp", "mbbs"}
                    ELSE {"practitioner", "doctor", "specialist"}
        paras == IF out.fn = "extract_single_doctor_from_row" /\ ~inp.elem.profile_text
                 THEN <<>> ELSE inp.elem.paras
    IN IF info_paragraph(paras, triggers) = 0 THEN <<>>
       ELSE paras[info_paragraph(paras, triggers)]

\* C15: every part of the qualifications line goes to one place: gender when
\* it is male or female, else specialties when it holds a specialty keyword,
\* else qualifications when it starts with two capitals or is one of the
\* abbreviations, else nowhere; the line "General Practitioner, Female,
\* FRACGP, MBBS" gives one specialty, two qualifications and gender Female.
C15_PartsByRule ==
    Extracted({"extract_single_doctor_info", "extract_single_doctor_from_row"}) =>
        LET parts == info_line_read
            of(kind) == SelectSeq(parts, LAMBDA part : place_by_rule(part) = kind)
            d == out.doctor_info
        IN /\ d.specialties = append_new(of("specialties"))
           /\ d.qualifications = append_new(of("qualifications"))
           /\ IF of("gender") = <<>> THEN ~d.gender.some
              ELSE d.gender.some /\ <<d.gender.val>> \in Range(of("gender"))
           /\ parts = InfoLines.example =>
                 /\ d.specialties = <<(<<"General", "Practitioner">>)>>
                 /\ d.qualifications = <<(<<"FRACGP">>), (<<"MBBS">>)>>
                 /\ d.gender = Just("Female")

\* The example of C15 alone: what the line "General Practitioner, Female,
\* FRACGP, MBBS" gives.
C15_ExampleLine ==
    (Extracted({"extract_single_doctor_info", "extract_single_doctor_from_row"})
        /\ info_line_read = InfoLines.example) =>
            /\ out.doctor_info.specialties = <<(<<"General", "Practitioner">>)>>
            /\ out.doctor_info.qualifications = <<(<<"FRACGP">>), (<<"MBBS">>)>>
            /\ out.doctor_info.gender = Just("Female")

\* The gender tokens of a qualifications line, in the order of the line.
gender_tokens(parts) ==
    SelectSeq(parts, LAMBDA part : Len(part) = 1 /\ Lower(part[1]) \in {"male", "female"})

\* C23: when the qualifications line holds more than one token equal to male
\* or female (in any case), the gender of the record is the first of them.
C23_FirstGenderWins ==
    (Extracted({"extract_single_doctor_info", "extract_single_doctor_from_row"})
        /\ Len(gender_tokens(info_line_read)) > 1) =>
            out.doctor_info.gender = Just(gender_tokens(info_line_read)[1][1])

\* What the loop over the parts does give: the gender is the last gender token
\* of the line, and with a single token that token.
C23_LastGenderWins ==
    (Extracted({"extract_single_doctor_info", "extract_single_doctor_from_row"})
        /\ gender_tokens(info_line_read) # <<>>) =>
            LET tokens == gender_tokens(info_line_read)
            IN out.doctor_info.gender = Just(tokens[Len(tokens)][1])

\* The number of reviews a text states: the number in the word before 'reviews'.
reviews_stated(ws) ==
    LET at == SelectSeq([i \in 1..Len(ws) |-> i],
                  LAMBDA i : /\ i >= 2 /\ ws[i] \in {"reviews", "reviews)"}
                             /\ FirstInteger(ws[i - 1]).some)
    IN IF at = <<>> THEN Nothing ELSE FirstInteger(ws[at[1] - 1])

\* C16: the rating is the first decimal number of the rating element's text
\* and the review count is the number of reviews the review element's text
\* states; "4.8 stars (23 reviews)" in both gives 4.8 and 23.
C16_RatingAndReviews ==
    Extracted({"extract_single_doctor_info"}) =>
        /\ inp.elem.rating_elem.some =>
              out.doctor_info.rating = FirstNumber(inp.elem.rating_elem.val, FirstDecimal)
        /\ inp.elem.review_elem.some =>
              out.doctor_info.review_count = reviews_stated(inp.elem.review_elem.val)
        /\ (/\ inp.elem.rating_elem = Just(<<"4.8", "stars", "(23", "reviews)">>)
            /\ inp.elem.review_elem = inp.elem.rating_elem) =>
              /\ out.doctor_info.rating = Just(48)
              /\ out.doctor_info.review_count = Just(23)

\* The half of C16 that holds: the rating is the first decimal number.
C16_RatingFirstDecimal ==
    (Extracted({"extract_single_doctor_info"}) /\ inp.elem.rating_elem.some) =>
        out.doctor_info.rating = FirstNumber(inp.elem.rating_elem.val, FirstDecimal)

\* C17: in the clinic-grouped export no value is null or empty: what the
\* input records lack is the string "Not available".
C17_MissingIsNotAvailable ==
    pc = "formatted" =>
        \A c \in DOMAIN out.formatted :
            LET clinic == out.formatted[c]
            IN /\ clinic.clinic_name.some /\ clinic.address.some
               /\ clinic.clinic_logo.some
               /\ clinic.availability_opening_hours_and_closing_hours.some
               /\ \A k \in DOMAIN clinic.doctors :
                     LET entry == clinic.doctors[k]
                     IN /\ entry.name.some /\ entry.contact_number.some
                        /\ entry.gender.some /\ entry.profile_url.some
                        /\ entry.bio.some /\ entry.rating.some /\ entry.reviews.some
                        /\ entry.specialisation # <<>> /\ entry.qualifications # <<>>
                        /\ entry.languages # <<>>

\* The part of C17 that holds: the values format_output_json tests before it
\* writes them are never null.
C17_TestedValuesPresent ==
    pc = "formatted" =>
        \A c \in DOMAIN out.formatted : \A k \in DOMAIN out.formatted[c].doctors :
            LET entry == out.formatted[c].doctors[k]
            IN /\ entry.gender.some /\ entry.bio.some /\ entry.rating.some
               /\ entry.reviews.some /\ entry.qualifications # <<>>

(***************************************************************************)
(* The name step of extract_single_doctor_info on candidates with one or   *)
(* two name nodes                                                          *)
(***************************************************************************)
\* Bound: the text of a name node has at most MaxNameWords words.
MaxNameWords == 3

NameWords ==
    {"Dr", "Dr.", "DR", "Prof", "Professor", "Doctor", "Mr", "Ms", "Mrs", "Miss", "John",
     "Smith"}

\* A name node of a candidate: a HotDoc doctor link, an <h3>, or an element
\* of class 'name'.
NameNode(kind, words) ==
    CASE kind = "link" ->
            [sels |-> {".DoctorAvailabilityRow-doctorLink", ".DoctorAvailabilityRow-profileTitle a",
                       "h2 a"},
             tag |-> "a", text |-> words, href |-> "/doctors/john-smith", link |-> ""]
      [] kind = "h3" -> [sels |-> {"h3"}, tag |-> "h3", text |-> words, href |-> "", link |-> ""]
      [] OTHER -> [sels |-> {".name"}, tag |-> "span", text |-> words, href |-> "", link |-> ""]

NameKinds == {"link", "h3", "name"}

\* The texts of the second node of a candidate, and of the first when there are two.
PairTexts == {<<>>, <<"Dr.">>, <<"Ms">>, <<"Dr", "John", "Smith">>, <<"Prof", "Smith">>}

\* A '.doctor-card' candidate with the name nodes given, in document order.
NamedElem(nodes) ==
    [Elem({"doctor-card"}, "text", Flatten([i \in 1..Len(nodes) |-> nodes[i].text]))
        EXCEPT !.nodes = nodes]

NamedElems ==
    {NamedElem(<<NameNode(kind, words)>>) :
        kind \in NameKinds, words \in SeqsUpTo(NameWords, MaxNameWords)}
    \cup {NamedElem(<<NameNode(k[1], w[1]), NameNode(k[2], w[2])>>) :
            k \in NameKinds \X NameKinds, w \in PairTexts \X PairTexts}
    \cup {NamedElem(<<>>)}

CandidateInit ==
    /\ pc = "call"
    /\ inp \in {[doc |-> [BaseDoc EXCEPT !.elems = <<e>>], url |-> "u1"] : e \in NamedElems}
    /\ out = <<>>
    /\ SelIdle /\ RunIdle

\* extract_doctor_info(soup, clinic_info) on a page with one candidate:
\* extract_single_doctor_info on the candidate (line 402), then the admission
\* test (lines 403-404).
ExtractCandidate ==
    /\ pc = "call"
    /\ LET clinic_info == extract_clinic_info(inp.doc, inp.url)
       IN out' = [fn |-> "extract_doctor_info",
                  doctor_info |-> extract_single_doctor_info(inp.doc.elems[1], clinic_info),
                  doctors |-> extract_doctor_info(inp.doc, clinic_info)]
    /\ pc' = "done"
    /\ UNCHANGED <<inp, selVars, runVars>>

CandidateNext == ExtractCandidate
SpecCandidate == CandidateInit /\ [][CandidateNext]_vars

\* The name node the record was read from: the first node, in document order,
\* of the earliest name selector that selects a node; 0 when none does.
NameNodeRead ==
    LET nodes == inp.doc.elems[1].nodes
        selected(j) == \E i \in DOMAIN nodes : name_selectors[j] \in nodes[i].sels
        earliest == CHOOSE j \in DOMAIN name_selectors :
                        selected(j) /\ \A h \in 1..(j - 1) : ~selected(h)
    IN IF \A j \in DOMAIN name_selectors : ~selected(j) THEN 0
       ELSE CHOOSE i \in DOMAIN nodes :
                /\ name_selectors[earliest] \in nodes[i].sels
                /\ \A h \in 1..(i - 1) : name_selectors[earliest] \notin nodes[h].sels

\* The text of the name node the record was read from.
NameTextRead == inp.doc.elems[1].nodes[NameNodeRead].text

\* The words an honorific of C24 and C25 is written as.
IsHonorific(word) ==
    RStripDot(Lower(word)) \in {"dr", "doctor", "prof", "professor", "mr", "ms", "mrs", "miss"}

\* The honorifics of a name text that are not in the cleaned name.
RemovedHonorifics(name_text) == SelectSeq(name_text, IsHonorific)

\* C24: the title of the record is the honorific clean_doctor_name removed
\* from the name text (one of them when it removed several), for every
\* honorific it can remove, and it is the default 'Dr.' only when it removed
\* none.
C24_TitleIsRemovedHonorific ==
    (pc = "done" /\ NameNodeRead # 0) =>
        LET removed == RemovedHonorifics(NameTextRead)
        IN  /\ out.doctor_info.title.some
            /\ IF removed = <<>> THEN out.doctor_info.title.val = "Dr."
               ELSE out.doctor_info.title.val \in Range(removed)

\* What extract_title does give: the first dr, doctor, prof or professor of
\* the name text as written, and 'Dr.' when the text has none of these.
C24_DoctorOrProfessorTitle ==
    (pc = "done" /\ NameNodeRead # 0) =>
        LET academic == SelectSeq(NameTextRead, LAMBDA word :
                            RStripDot(Lower(word)) \in {"dr", "doctor", "prof", "professor"})
        IN out.doctor_info.title = Just(IF academic = <<>> THEN "Dr." ELSE academic[1])

RECURSIVE StripFront(_)
\* The name text without its leading run of honorifics.
StripFront(name_text) ==
    IF name_text # <<>> /\ IsHonorific(Head(name_text)) THEN StripFront(Tail(name_text))
    ELSE name_text

\* C25: clean_doctor_name strips honorifics from the front only: the name of
\* the record is the name text without its leading run of honorifics, every
\* word after the first other word kept.
C25_StripsFrontOnly ==
    (pc = "done" /\ NameNodeRead # 0) =>
        out.doctor_info.name = Just(StripFront(NameTextRead))

\* What clean_doctor_name does give: the words of the name text that are not
\* honorifics, wherever they stand.
C25_StripsEverywhere ==
    (pc = "done" /\ NameNodeRead # 0) =>
        out.doctor_info.name = Just(SelectSeq(NameTextRead, LAMBDA word : ~IsHonorific(word)))

\* C30: name, title and profile URL of the record come from the node of the
\* first name selector that selects anything; when that node's cleaned name is
\* empty the candidate gives no record, also when a later selector selects a
\* node with a name.
C30_FirstMatchingSelectorOnly ==
    pc = "done" =>
        IF NameNodeRead = 0
        THEN ~out.doctor_info.name.some /\ ~out.doctor_info.title.some /\ out.doctors = <<>>
        ELSE LET node == inp.doc.elems[1].nodes[NameNodeRead]
                 d == out.doctor_info
             IN  /\ d.name = Just(clean_doctor_name(node.text))
                 /\ d.title = Just(extract_title(node.text))
                 /\ d.profile_url.some <=> node.tag = "a"
                 /\ d.name.val = <<>> => out.doctors = <<>>
                 /\ d.name.val # <<>> => out.doctors = <<d>>

\* C30 witness: the first matching selector selected a node made of an
\* honorific only, a later selector would have selected a node with a name,
\* and the candidate gave no record.
C30_Witness ==
    /\ pc = "done"
    /\ Len(inp.doc.elems[1].nodes) = 2
    /\ NameNodeRead = 2
    /\ NameTextRead = <<"Dr.">>
    /\ inp.doc.elems[1].nodes[1].text = <<"Dr", "John", "Smith">>
    /\ out.doctor_info.name = Just(<<>>)
    /\ out.doctors = <<>>

(***************************************************************************)
(* HotDocScraper.get_statistics                                            *)
(*                                                                         *)
(* A rating is kept in tenths; an average is the fraction num / den.       *)
(***************************************************************************)
\* Bound: scraped_data holds at most MaxRecords records.
MaxRecords == 3

RECURSIVE Sum(_)
\* sum(ratings)
Sum(numbers) == IF numbers = <<>> THEN 0 ELSE Head(numbers) + Sum(Tail(numbers))

\* The counts of a dictionary built by d[key] = d.get(key, 0) + 1 over keys.
count_by(keys) == [key \in Range(keys) |-> Len(SelectSeq(keys, LAMBDA x : x = key))]

\* `if doctor.get('rating')` (line 909)
rating_counted(rating) == TruthyNum(rating)

\* get_statistics() over self.scraped_data (lines 883-920).
get_statistics(data) ==
    IF data = <<>> THEN [empty |-> TRUE]
    ELSE LET rated == SelectSeq(data, LAMBDA doctor : rating_counted(doctor.rating))
             ratings == [k \in 1..Len(rated) |-> rated[k].rating.val]
             named == SelectSeq(data, LAMBDA doctor : TruthyStr(doctor.clinic_info.clinic_name))
             located == SelectSeq(data, LAMBDA doctor : TruthyStr(doctor.clinic_info.state))
         IN [empty |-> FALSE,
             total_doctors |-> Len(data),
             total_clinics |->
                 Cardinality({named[k].clinic_info.clinic_name : k \in DOMAIN named}),
             states |-> count_by([k \in 1..Len(located) |-> located[k].clinic_info.state.val]),
             specialties |->
                 count_by(Flatten([k \in 1..Len(data) |-> data[k].specialties])),
             doctors_with_ratings |-> Len(rated),
             average_rating |-> IF ratings # <<>>
                                THEN [num |-> Sum(ratings), den |-> Len(ratings)]
                                ELSE [num |-> 0, den |-> 1],
             doctors_with_bios |-> Len(SelectSeq(data, LAMBDA doctor : TruthyStr(doctor.bio)))]

\* The records of scraped_data: what extract_single_doctor_info gives for a
\* doctor card with or without a rating, in a clinic with or without a name.
StatRecords ==
    {extract_single_doctor_info(
         DoctorElem("h3", <<InfoLines.example>>, rating, Nothing), clinic) :
        rating \in {Nothing, Just(<<"4.8", "stars", "(23", "reviews)">>),
                    Just(<<"0", "stars">>), Just(<<"(23", "reviews)">>)},
        clinic \in {extract_clinic_info(BaseDoc, "u1"),
                    extract_clinic_info([BaseDoc EXCEPT !.title = Nothing], "u2")}}

\* A scraper whose scraped_data holds up to MaxRecords records.
StatsInit ==
    /\ pc = "call" /\ inp = <<>> /\ out = <<>>
    /\ scraped_data \in UNION {[1..n -> StatRecords] : n \in 0..MaxRecords}
    /\ scraper = "HotDocScraper"
    /\ SelIdle
    /\ choice = "" /\ locations = <<>> /\ loc_i = 0 /\ center_urls = <<>> /\ url_i = 0
    /\ visited_urls = {} /\ total_doctors = 0 /\ doctors_data = <<>> /\ requests = <<>>
    /\ files = <<>> /\ console = <<>>

\* get_statistics()
GetStatistics ==
    /\ pc = "call"
    /\ out' = get_statistics(scraped_data)
    /\ pc' = "done"
    /\ UNCHANGED <<inp, selVars, runVars>>

StatsNext == GetStatistics
SpecStats == StatsInit /\ [][StatsNext]_vars

\* The present ratings of scraped_data, in order.
PresentRatings ==
    LET rated == SelectSeq(scraped_data, LAMBDA doctor : doctor.rating.some)
    IN [k \in 1..Len(rated) |-> rated[k].rating.val]

\* C18: get_statistics reports as doctors_with_ratings the number of records
\* whose rating is present, and as average_rating the mean of those ratings,
\* whatever their value in [0, 5].
C18_RatingStatistics ==
    (pc = "done" /\ scraped_data # <<>>) =>
        /\ out.doctors_with_ratings = Len(PresentRatings)
        /\ PresentRatings # <<>> =>
              out.average_rating.num * Len(PresentRatings)
                  = Sum(PresentRatings) * out.average_rating.den

\* The part of C18 that holds: the count and the mean are those of the
\* ratings that are present and not zero.
C18_NonZeroRatingStatistics ==
    (pc = "done" /\ scraped_data # <<>>) =>
        LET ratings == SelectSeq(PresentRatings, LAMBDA r : r # 0)
        IN /\ out.doctors_with_ratings = Len(ratings)
           /\ ratings # <<>> =>
                 out.average_rating.num * Len(ratings) = Sum(ratings) * out.average_rating.den

(***************************************************************************)
(* format_output_json on a list of records of several clinics              *)
(***************************************************************************)
\* The clinic records of the list: two pages of one clinic name that differ
\* in address and phone, another clinic, and a page that gave no clinic name.
ListClinics ==
    {[NewClinicInfo("u1") EXCEPT !.clinic_name = Just("Armadale Family Clinic"),
                                 !.address = Just(<<(<<"Armadale">>), (<<"VIC", "3143">>)>>),
                                 !.phone = Just("0398221111")],
     [NewClinicInfo("u2") EXCEPT !.clinic_name = Just("Armadale Family Clinic"),
                                 !.address = Just(<<(<<"Brisbane">>), (<<"QLD", "4000">>)>>),
                                 !.phone = Just("0730001111")],
     [NewClinicInfo("u3") EXCEPT !.clinic_name = Just("High St Clinic"),
                                 !.address = Just(<<(<<"Sydney">>), (<<"NSW", "2000">>)>>),
                                 !.phone = Just("0290001111")],
     [NewClinicInfo("u4") EXCEPT !.address = Just(<<(<<"Melbourne">>), (<<"VIC", "3000">>)>>),
                                 !.phone = Just("0390001111")]}

\* The records of the list: a doctor by name at a clinic.
ListRecords ==
    {[NewDoctorInfo(clinic_info) EXCEPT !.name = Just(name), !.title = Just("Dr.")] :
        clinic_info \in ListClinics, name \in {<<"John", "Smith">>, <<"Lee">>}}

FormatInit ==
    /\ pc = "call"
    /\ inp \in {[doctors_data |-> data] : data \in SeqsUpTo(ListRecords, MaxRecords)}
    /\ out = <<>>
    /\ SelIdle /\ RunIdle

\* format_output_json(doctors_data), with its answer to an empty list (lines
\* 638-639).
FormatList ==
    /\ pc = "call"
    /\ out' = IF inp.doctors_data = <<>> THEN [message |-> "No data found."]
              ELSE [clinics |-> format_output_json(inp.doctors_data)]
    /\ pc' = "done"
    /\ UNCHANGED <<inp, selVars, runVars>>

FormatNext == FormatList
SpecFormat == FormatInit /\ [][FormatNext]_vars

\* The places in the input of the records with the clinic name given, in order.
PlacesOf(clinic_name) ==
    SelectSeq([k \in 1..Len(inp.doctors_data) |-> k],
              LAMBDA k : inp.doctors_data[k].clinic_info.clinic_name = clinic_name)

\* The entry of a record: its title and name, with the phone of a clinic record.
IsEntryOf(entry, doctor, clinic_info) ==
    /\ entry.name = Just(<<doctor.title.val>> \o doctor.name.val)
    /\ entry.contact_number = clinic_info.phone

\* C29: format_output_json partitions its input: the doctor entries of a
\* clinic are the entries of the input records with that clinic name, in
\* input order, so that there are as many entries as records; the clinics are
\* in the order of their first record, and records of one clinic name are
\* under the clinic data of the first of them.
C29_PartitionByClinicName ==
    (pc = "done" /\ inp.doctors_data # <<>>) =>
        LET data == inp.doctors_data
            clinics == out.clinics
            name_of(c) == clinics[c].clinic_name
        IN  /\ Sum([c \in 1..Len(clinics) |-> Len(clinics[c].doctors)]) = Len(data)
            /\ \A k \in DOMAIN data : \E c \in DOMAIN clinics :
                    name_of(c) = data[k].clinic_info.clinic_name
            /\ \A c \in DOMAIN clinics :
                    LET places == PlacesOf(name_of(c))
                    IN  /\ places # <<>>
                        /\ Len(clinics[c].doctors) = Len(places)
                        /\ \A k \in DOMAIN places :
                               IsEntryOf(clinics[c].doctors[k], data[places[k]],
                                         data[places[1]].clinic_info)
                        /\ clinics[c].address = data[places[1]].clinic_info.address
                        /\ \A b \in 1..(c - 1) :
                               /\ name_of(b) # name_of(c)
                               /\ PlacesOf(name_of(b))[1] < places[1]

\* C29 witness: three records, the first and the last of two clinic records
\* with one name, gave two clinics, the first with both doctors.
C29_Witness ==
    /\ pc = "done"
    /\ Len(inp.doctors_data) = 3
    /\ inp.doctors_data[1].clinic_info.clinic_name = inp.doctors_data[3].clinic_info.clinic_name
    /\ inp.doctors_data[1].clinic_info # inp.doctors_data[3].clinic_info
    /\ inp.doctors_data[1].name # inp.doctors_data[3].name
    /\ inp.doctors_data[2].clinic_info.clinic_name = Just("High St Clinic")
    /\ Len(out.clinics) = 2 /\ Len(out.clinics[1].doctors) = 2

(***************************************************************************)
(* HotDocScraper: discovery, one medical centre, export                    *)
(***************************************************************************)
\* Bound: the default location list is cut to its first MaxLocations entries.
MaxLocations == 2

\* Bound: a search or directory page links at most MaxCandidates medical centres.
MaxCandidates == 2

\* total_doctors % 100 == 0 (line 704)
CheckpointEvery == 100

\* The default list of scrape_all_locations (lines 660-668).
AllDefaultLocations ==
    <<"Sydney, NSW", "Melbourne, VIC", "Brisbane, QLD", "Perth, WA", "Adelaide, SA",
      "Canberra, ACT", "Darwin, NT", "Hobart, TAS", "Gold Coast, QLD", "Newcastle, NSW",
      "Wollongong, NSW", "Geelong, VIC", "Townsville, QLD", "Cairns, QLD", "Ballarat, VIC",
      "Bendigo, VIC", "Mandurah, WA", "Mackay, QLD", "Rockhampton, QLD", "Bundaberg, QLD",
      "Coffs Harbour, NSW", "Wagga Wagga, NSW", "Shepparton, VIC", "Port Macquarie, NSW",
      "Tamworth, NSW">>
\* No default list: scrape_all_locations without locations has nothing to do.
NoDefaultLocations == <<>>

\* The locations scrape_all_locations uses when it is given none.
DefaultLocations == SubSeq(AllDefaultLocations, 1, MaxLocations)

\* The medical centre pages that search and directory pages link to.
LinkedUrls == {"u1", "u2"}

\* generate_location_urls(location): the first URL built for a city of the
\* postcode table; nothing for a place that is not in it (Cairns) or for a
\* location without a comma.
generate_location_urls(location) ==
    CASE location = "Sydney, NSW" -> <<"u4">>
      [] location = "Melbourne, VIC" -> <<"u5">>
      [] location = "Brisbane, QLD" -> <<"u3">>
      [] OTHER -> <<>>

\* The links of a page that are new: not visited and not yet in the list
\* (lines 113-118).
new_links(links, visited) ==
    SelectIdx(Len(links), LAMBDA k :
        links[k] \notin visited /\ \A j \in 1..(k - 1) : links[j] # links[k])

\* search_medical_centers(location): links are the medical centre links of the
\* first search page that has any.
search_medical_centers(location, links, visited) ==
    LET found == new_links(links, visited)
        urls == [k \in 1..Len(found) |-> links[found[k]]]
    IN IF urls = <<>> /\ location # "" THEN generate_location_urls(location) ELSE urls

\* discover_medical_centers_alternative(location): links are the directory
\* links that match the location; find_via_google_search gives nothing.
discover_medical_centers_alternative(location, links) ==
    LET urls == IF links # <<>> THEN links ELSE generate_location_urls(location)
    IN SubSeq(urls, 1, IF Len(urls) < 50 THEN Len(urls) ELSE 50)

\* Lines 677-681 of scrape_all_locations.
discover(location, search_links, directory_links, visited) ==
    LET center == search_medical_centers(location, search_links, visited)
    IN IF center = <<>> THEN discover_medical_centers_alternative(location, directory_links)
       ELSE center

\* The visited test of the URL loop, always false.
already_visited_never(url, visited) == FALSE

\* url in self.visited_urls (line 687)
already_visited(url, visited) == url \in visited

\* The URL loop without self.visited_urls.add(url).
mark_visited_never(url, visited) == visited

\* self.visited_urls.add(url) (line 690)
mark_visited(url, visited) == visited \cup {url}

\* check_url_exists(url): head is the answer to the HEAD request.
check_url_exists(head) == head = "200"

\* scrape_medical_center of the class of the scraper object.
scrape(cls, drv, url, answer) ==
    IF cls = "SeleniumHotDocScraper" THEN selenium_scrape_medical_center(drv, url, answer)
    ELSE scrape_medical_center(url, answer)

\* A checkpoint test that is true after every page that gave doctors.
checkpoint_due_always(total) == TRUE

\* total_doctors % 100 == 0 (line 704)
checkpoint_due(total) == total % CheckpointEvery = 0

\* save_data writing nothing.
save_data_nothing(filename, data) == <<>>

\* save_data(filename): the files it writes, the JSON file always and the CSV
\* file (one row per record) when there are records.
save_data(filename, data) ==
    <<[name |-> filename, ext |-> "json", records |-> data]>>
        \o (IF data # <<>>
            THEN <<[name |-> filename, ext |-> "csv",
                    records |-> [k \in 1..Len(data) |-> data[k].name]]>>
            ELSE <<>>)

\* What save_data logs to the console.
save_data_log(data) ==
    <<"Data saved to json">> \o (IF data # <<>> THEN <<"Data also saved to csv">> ELSE <<>>)

PartialName(total) == [base |-> "hotdoc_partial", suffix |-> ToString(total)]
FinalName == [base |-> "hotdoc_doctors", suffix |-> "timestamp"]

(***************************************************************************)
(* A run: main of scraper.py, or scrape_all_locations called on a scraper  *)
(***************************************************************************)
\* A medical centre page with n doctor cards, each with its own data-testid.
DocOf(n) ==
    [BaseDoc EXCEPT !.elems =
        [k \in 1..n |-> [Elem({"doctor-card"}, "h3", <<"Dr", "John", "Smith">>)
                            EXCEPT !.testid = ToString(k)]]]

\* Two doctors and a card that names nobody.
DocTwo ==
    [BaseDoc EXCEPT !.elems = <<Elem({"doctor-card"}, "h3", <<"Dr", "John", "Smith">>),
                                Elem({"doctor-card"}, "text", <<"our", "doctor">>),
                                Elem({"doctor-card"}, "h3", <<"Ms", "Lee,", "GP">>)>>]

\* A doctor's name in running text only.
DocText == [BaseDoc EXCEPT !.elems = <<Elem({}, "text", <<"Dr", "John", "Smith">>)>>]

OkResponses == <<"ok", "ok", "ok">>
RetryResponses == <<"timeout", "ok", "ok">>
FailResponses == <<"bad_status", "timeout", "network_error">>
RaiseResponses == <<"timeout", "other_exception", "ok">>
BrowserOk == [nav |-> "ok", wait |-> "found", source |-> "ok"]
BrowserDown == [nav |-> "raise", wait |-> "found", source |-> "ok"]

\* What the network and the browser answer while one URL is processed.
PlainAnswers ==
    <<[head |-> "404", responses |-> OkResponses, browser |-> BrowserOk, doc |-> BaseDoc],
      [head |-> "raise", responses |-> OkResponses, browser |-> BrowserOk, doc |-> BaseDoc],
      [head |-> "200", responses |-> FailResponses, browser |-> BrowserOk, doc |-> BaseDoc],
      [head |-> "200", responses |-> RaiseResponses, browser |-> BrowserOk, doc |-> BaseDoc],
      [head |-> "200", responses |-> OkResponses, browser |-> BrowserOk, doc |-> DocTwo],
      [head |-> "200", responses |-> RetryResponses, browser |-> BrowserOk,
       doc |-> DocOf(50)],
      [head |-> "200", responses |-> OkResponses, browser |-> BrowserOk, doc |-> DocOf(60)]>>
SeleniumAnswers ==
    PlainAnswers \o
    <<[head |-> "200", responses |-> OkResponses, browser |-> BrowserOk, doc |-> DocText],
      [head |-> "200", responses |-> OkResponses, browser |-> BrowserDown, doc |-> DocTwo],
      [head |-> "200", responses |-> RaiseResponses, browser |-> BrowserDown,
       doc |-> DocTwo]>>
PageAnswers(cls) == IF cls = "SeleniumHotDocScraper" THEN SeleniumAnswers ELSE PlainAnswers

RunUrls == {"u1", "u2", "u3", "u4", "u5"}

\* scrape(cls, drv, url, answer) for every scraper, URL and answer of a run, as
\* pairs of the arguments (the answer by its place in SeleniumAnswers) and the result.
scrape_results ==
    {<<k, scrape(k[1], k[2], k[3], SeleniumAnswers[k[4]])>> :
        k \in {"HotDocScraper", "SeleniumHotDocScraper"} \X {"None", "chrome"} \X RunUrls
                 \X (1..Len(SeleniumAnswers))}
scrape_result(cls, drv, url, a) ==
    (CHOOSE p \in scrape_results : p[1] = <<cls, drv, url, a>>)[2]

\* What a run keeps of an answer: of the page, only how many elements it has.
Seen(url, answer) ==
    [url |-> url, head |-> answer.head, responses |-> answer.responses,
     browser |-> answer.browser, page_elems |-> Len(answer.doc.elems)]

ApiLocations == {<<>>, <<"Brisbane, QLD", "Cairns, QLD">>}

\* main() of scraper.py has made a HotDocScraper, or a caller has made a
\* SeleniumHotDocScraper and calls scrape_all_locations(locations) on it.
Init ==
    /\ \/ /\ pc = "main"
          /\ scraper = "HotDocScraper" /\ driver = "None"
          /\ locations = <<>> /\ choice = ""
       \/ /\ pc = "scrape_all_locations"
          /\ choice = "not asked"
          /\ scraper = "SeleniumHotDocScraper" /\ driver \in {"None", "chrome"}
          /\ locations \in ApiLocations
    /\ inp = <<>> /\ out = <<>> /\ fetch_log = <<>>
    /\ loc_i = 0 /\ center_urls = <<>> /\ url_i = 0
    /\ visited_urls = {} /\ scraped_data = <<>> /\ total_doctors = 0
    /\ doctors_data = <<>> /\ requests = <<>> /\ files = <<>> /\ console = <<>>

runRest == <<out, driver, fetch_log, scraper>>

\* main, choice 1 (lines 941-951)
MainAllCities ==
    /\ pc = "main"
    /\ \E confirm \in {"y", "n"} :
          /\ inp' = [confirm |-> confirm]
          /\ IF confirm = "y"
             THEN pc' = "scrape_all_locations" /\ console' = console
             ELSE pc' = "return" /\ console' = console \o <<"Scraping cancelled.">>
    /\ choice' = "1"
    /\ UNCHANGED <<locations, loc_i, center_urls, url_i, visited_urls, scraped_data,
                   total_doctors, doctors_data, requests, files, runRest>>

\* main, choice 2 (lines 953-961)
MainLocation ==
    /\ pc = "main"
    /\ \E location \in {"", "Brisbane, QLD", "Cairns, QLD"} :
          /\ inp' = [location |-> location]
          /\ IF location # ""
             THEN pc' = "scrape_all_locations" /\ locations' = <<location>>
                  /\ console' = console
             ELSE pc' = "return" /\ locations' = locations
                  /\ console' = console \o <<"No location provided.">>
    /\ choice' = "2"
    /\ UNCHANGED <<loc_i, center_urls, url_i, visited_urls, scraped_data,
                   total_doctors, doctors_data, requests, files, runRest>>

\* main, choice 3 (lines 963-972)
MainUrl ==
    /\ pc = "main"
    /\ \E url \in {"", "u1"} :
          IF url # ""
          THEN \E a \in DOMAIN PageAnswers(scraper) :
                  /\ inp' = Seen(url, PageAnswers(scraper)[a])
                  /\ doctors_data' = scrape_result(scraper, driver, url, a).doctors
                  /\ scraped_data' = scraped_data \o doctors_data'
                  /\ requests' = requests \o <<[op |-> "scrape", target |-> url]>>
                  /\ pc' = "export" /\ console' = console
          ELSE /\ inp' = [url |-> url]
               /\ pc' = "return" /\ console' = console \o <<"No URL provided.">>
               /\ UNCHANGED <<doctors_data, scraped_data, requests>>
    /\ choice' = "3"
    /\ UNCHANGED <<locations, loc_i, center_urls, url_i, visited_urls, total_doctors, files,
                   runRest>>

\* main, any other choice (lines 973-975)
MainInvalid ==
    /\ pc = "main"
    /\ \E c \in {"", "4"} : choice' = c /\ inp' = [choice |-> c]
    /\ pc' = "return"
    /\ console' = console \o <<"Invalid choice.">>
    /\ UNCHANGED <<locations, loc_i, center_urls, url_i, visited_urls, scraped_data,
                   total_doctors, doctors_data, requests, files, runRest>>

\* scrape_all_locations(locations), up to the location loop (lines 658-670)
ScrapeAllLocations ==
    /\ pc = "scrape_all_locations"
    /\ locations' = IF locations = <<>> THEN DefaultLocations ELSE locations
    /\ total_doctors' = 0
    /\ loc_i' = 1
    /\ pc' = "location"
    /\ UNCHANGED <<inp, choice, center_urls, url_i, visited_urls, scraped_data, doctors_data,
                   requests, files, console, runRest>>

\* The start of one iteration of the location loop (lines 672-684); the
\* directory pages are fetched only when the search gave nothing.
StartLocation ==
    /\ pc = "location" /\ loc_i <= Len(locations)
    /\ \E search_links \in SeqsUpTo(LinkedUrls, MaxCandidates) :
          \E directory_links \in
                 IF search_medical_centers(locations[loc_i], search_links, visited_urls) = <<>>
                 THEN SeqsUpTo(LinkedUrls, MaxCandidates) ELSE {<<>>} :
             /\ inp' = [location |-> locations[loc_i]]
             /\ center_urls' = discover(locations[loc_i], search_links, directory_links,
                                        visited_urls)
    /\ requests' = requests \o <<[op |-> "search", target |-> locations[loc_i]]>>
    /\ url_i' = 1
    /\ pc' = "url"
    /\ UNCHANGED <<choice, locations, loc_i, visited_urls, scraped_data, total_doctors,
                   doctors_data, files, console, runRest>>

\* One iteration of the URL loop for a URL seen before (lines 686-688)
SkipVisited ==
    /\ pc = "url" /\ url_i <= Len(center_urls)
    /\ already_visited(center_urls[url_i], visited_urls)
    /\ url_i' = url_i + 1
    /\ UNCHANGED <<pc, inp, choice, locations, loc_i, center_urls, visited_urls, scraped_data,
                   total_doctors, doctors_data, requests, files, console, runRest>>

\* The body of the URL loop for a new URL (lines 690-706), with the handler of
\* the location loop (lines 710-712) for what escapes it; result is what
\* scrape_medical_center gives for the URL.
HandleUrl(url, answer, result) ==
    LET exists == check_url_exists(answer.head)
        total == total_doctors + Len(result.doctors)
        data == scraped_data \o result.doctors
        checkpoint == checkpoint_due(total)
    IN /\ inp' = Seen(url, answer)
       /\ visited_urls' = mark_visited(url, visited_urls)
       /\ requests' = requests \o <<[op |-> "head", target |-> url]>>
                         \o (IF exists THEN <<[op |-> "scrape", target |-> url]>>
                             ELSE <<>>)
       /\ IF ~exists
          THEN /\ url_i' = url_i + 1
               /\ UNCHANGED <<pc, loc_i, doctors_data, scraped_data, total_doctors,
                              files, console>>
          ELSE IF result.raised
          THEN /\ pc' = "location" /\ loc_i' = loc_i + 1
               /\ UNCHANGED <<url_i, doctors_data, scraped_data, total_doctors,
                              files, console>>
          ELSE /\ doctors_data' = result.doctors
               /\ url_i' = url_i + 1
               /\ UNCHANGED <<pc, loc_i>>
               /\ IF result.doctors # <<>>
                  THEN /\ scraped_data' = data
                       /\ total_doctors' = total
                       /\ IF checkpoint
                          THEN /\ files' = files \o save_data(PartialName(total), data)
                               /\ console' = console \o save_data_log(data)
                          ELSE UNCHANGED <<files, console>>
                  ELSE UNCHANGED <<scraped_data, total_doctors, files, console>>

\* One iteration of the URL loop for a new URL (lines 686-706).
ProcessUrl ==
    /\ pc = "url" /\ url_i <= Len(center_urls)
    /\ ~already_visited(center_urls[url_i], visited_urls)
    /\ \E a \in DOMAIN PageAnswers(scraper) :
          HandleUrl(center_urls[url_i], PageAnswers(scraper)[a],
                    scrape_result(scraper, driver, center_urls[url_i], a))
    /\ UNCHANGED <<choice, locations, center_urls, runRest>>

\* The URL loop of a location is over (line 708)
EndLocation ==
    /\ pc = "url" /\ url_i > Len(center_urls)
    /\ loc_i' = loc_i + 1
    /\ pc' = "location"
    /\ UNCHANGED <<inp, choice, locations, center_urls, url_i, visited_urls, scraped_data,
                   total_doctors, doctors_data, requests, files, console, runRest>>

\* The location loop is over: scrape_all_locations returns (line 714)
Return ==
    /\ pc = "location" /\ loc_i > Len(locations)
    /\ pc' = IF choice = "not asked" THEN "returned" ELSE "export"
    /\ UNCHANGED <<inp, choice, locations, loc_i, center_urls, url_i, visited_urls,
                   scraped_data, total_doctors, doctors_data, requests, files, console,
                   runRest>>

\* main, the final export (lines 977-1003)
FinalExport ==
    /\ pc = "export"
    /\ IF scraped_data # <<>>
       THEN /\ files' = files \o save_data(FinalName, scraped_data)
            /\ console' = console \o <<"Scraping completed!">> \o save_data_log(scraped_data)
                            \o <<"Scraping Statistics">>
       ELSE /\ files' = files
            /\ console' = console \o <<"No data was scraped.">>
    /\ pc' = "done"
    /\ UNCHANGED <<inp, choice, locations, loc_i, center_urls, url_i, visited_urls,
                   scraped_data, total_doctors, doctors_data, requests, runRest>>

Next ==
    \/ MainAllCities \/ MainLocation \/ MainUrl \/ MainInvalid
    \/ ScrapeAllLocations \/ StartLocation \/ SkipVisited \/ ProcessUrl \/ EndLocation
    \/ Return \/ FinalExport

Spec == Init /\ [][Next]_vars

(***************************************************************************)
(* Properties of a run                                                     *)
(***************************************************************************)
\* The requests of one kind, in order.
RequestsOf(op) == SelectSeq(requests, LAMBDA r : r.op = op)
Targets(rs) == [k \in 1..Len(rs) |-> rs[k].target]

\* C2: a failure while one URL is fetched or processed never aborts the run:
\* when a location is left, every candidate URL of it has been handled, and
\* when scrape_all_locations is over every location has been searched.
C2_FailureNeverAborts ==
    /\ pc = "location" =>
          /\ Len(RequestsOf("search")) = loc_i - 1
          /\ loc_i > 1 => Range(center_urls) \subseteq visited_urls
    /\ (pc \in {"returned", "export", "done"} /\ choice # "3") =>
          Targets(RequestsOf("search")) = locations

\* C2 witness: in one location the first URL failed after its existence check
\* (the fetch was exhausted or raised) and the second URL gave doctors.
C2_Witness ==
    /\ scraper = "HotDocScraper"
    /\ pc = "location" /\ loc_i = 2 /\ Len(center_urls) = 2
    /\ Targets(requests) = <<locations[1], center_urls[1], center_urls[1], center_urls[2],
                             center_urls[2]>>
    /\ doctors_data # <<>> /\ scraped_data = doctors_data

\* C3: in one run no URL is existence-checked twice and none is scraped twice.
C3_AtMostOnce ==
    \A i, j \in DOMAIN requests :
        (i # j /\ requests[i].op \in {"head", "scrape"}) => requests[i] # requests[j]

\* C3 witness: a candidate list that holds one URL twice has been gone
\* through, and the URL was checked once.
C3_Witness ==
    /\ pc = "url" /\ url_i > Len(center_urls)
    /\ Len(center_urls) = 2 /\ center_urls[1] = center_urls[2]
    /\ Len(SelectSeq(requests, LAMBDA r : r = [op |-> "head", target |-> center_urls[1]])) = 1

\* The requests a step adds to the log.
NewRequests == SubSeq(requests', Len(requests) + 1, Len(requests'))

\* C26: visited_urls never loses an element, and a URL is existence-checked
\* or scraped by scrape_all_locations only in a step that found it unvisited
\* and leaves it visited, whatever the check and the scrape give; so no URL
\* is tried a second time in the run.
C26_VisitedBeforeTried ==
    [][/\ visited_urls \subseteq visited_urls'
       /\ pc = "url" =>
              \A k \in 1..(Len(requests') - Len(requests)) :
                  /\ NewRequests[k].op \in {"head", "scrape"}
                  /\ NewRequests[k].target \notin visited_urls
                  /\ NewRequests[k].target \in visited_urls']_vars

\* C26 witness: the second location discovered again the URL the first
\* location tried without getting a doctor, and the URL loop went past it
\* without another request.
C26_Witness ==
    /\ pc = "url" /\ loc_i = 2 /\ url_i = 2
    /\ center_urls[1] \in visited_urls
    /\ scraped_data = <<>>
    /\ Len(requests) \in {3, 4}
    /\ requests[2] = [op |-> "head", target |-> center_urls[1]]
    /\ requests[Len(requests)] = [op |-> "search", target |-> locations[2]]

\* The files a step writes.
NewFiles == SubSeq(files', Len(files) + 1, Len(files'))

\* What C27 asks of a step of scrape_all_locations.
CounterAndCheckpointsStep ==
    pc \in {"scrape_all_locations", "location", "url"} =>
        /\ Len(scraped_data) <= Len(scraped_data')
        /\ SubSeq(scraped_data', 1, Len(scraped_data)) = scraped_data
        /\ pc' \in {"location", "url", "returned", "export"} =>
               total_doctors' = Len(scraped_data')
        /\ \A k \in 1..(Len(files') - Len(files)) :
               /\ NewFiles[k].name = PartialName(total_doctors')
               /\ total_doctors' > 0 /\ total_doctors' % 100 = 0
               /\ NewFiles[k].ext = "json" => NewFiles[k].records = scraped_data'
               /\ \E j \in 1..(Len(files') - Len(files)) : NewFiles[j].ext = "json"

\* C27: in every step of scrape_all_locations scraped_data only grows by
\* appending and total_doctors stays equal to its length, and a checkpoint is
\* written only when that count is a positive multiple of 100, with exactly
\* the records accumulated so far.
C27_CounterAndCheckpoints == [][CounterAndCheckpointsStep]_vars

\* C27 witness: two pages of fifty doctors each have been scraped and the
\* checkpoint of the hundred records has been written.
C27_Witness ==
    /\ pc = "url"
    /\ total_doctors = 100 /\ Len(scraped_data) = 100
    /\ Len(doctors_data) = 50
    /\ \E k \in DOMAIN files :
          files[k] = [name |-> PartialName(100), ext |-> "json", records |-> scraped_data]

\* C5: every record returned by a scrape and every record of scraped_data has
\* a name that is present and not empty.
C5_NoUnnamedRecord ==
    /\ \A k \in DOMAIN doctors_data : Truthy(doctors_data[k].name)
    /\ \A k \in DOMAIN scraped_data : Truthy(scraped_data[k].name)

\* C5 witness: a page with three candidates, one of them naming nobody, gave
\* two records, which are in scraped_data.
C5_Witness ==
    /\ pc = "url" /\ "page_elems" \in DOMAIN inp /\ inp.page_elems = 3
    /\ Len(doctors_data) = 2 /\ Len(scraped_data) >= 2

\* The number of records in the latest checkpoint, 0 when there is none.
LatestCheckpoint ==
    LET partial == SelectSeq(files, LAMBDA f : f.name.base = "hotdoc_partial" /\ f.ext = "json")
    IN IF partial = <<>> THEN 0 ELSE Len(partial[Len(partial)].records)

\* C7: during scrape_all_locations fewer than 100 accumulated records are
\* missing from the latest checkpoint.
C7_UnsavedBelow100 ==
    pc \in {"location", "url"} => Len(scraped_data) - LatestCheckpoint < CheckpointEvery

\* The console lines of a final export with records.
ExportReport ==
    <<"Scraping completed!", "Data saved to json", "Data also saved to csv",
      "Scraping Statistics">>

Last(s, n) == SubSeq(s, Len(s) - n + 1, Len(s))

\* C8: when main reaches its end without a record, it has written no file and
\* the console ends with the no-data report; with at least one record, the
\* JSON file of the final export holds exactly the records and the console
\* ends with the save report followed by the statistics.
C8_FinalExport ==
    pc = "done" =>
        IF scraped_data = <<>>
        THEN /\ files = <<>>
             /\ console # <<>> /\ Last(console, 1) = <<"No data was scraped.">>
        ELSE /\ \E k \in DOMAIN files :
                   files[k] = [name |-> FinalName, ext |-> "json", records |-> scraped_data]
             /\ Len(console) >= 4 /\ Last(console, 4) = ExportReport

\* C8 witness: main has ended with records, after a checkpoint was written.
C8_Witness ==
    /\ pc = "done" /\ scraped_data # <<>>
    /\ \E k \in DOMAIN files : files[k].name.base = "hotdoc_partial"

\* C8, the other case: main has ended after a scrape that gave no record.
C8_WitnessNoData == pc = "done" /\ scraped_data = <<>> /\ requests # <<>>

\* main returned because the location or the URL it asked for was empty.
MainGotNothing == pc = "return" /\ choice \in {"2", "3"}

\* scrape_all_locations was called without locations and is under way or over.
CalledWithoutLocations ==
    /\ pc \in {"location", "url", "returned", "export", "done"}
    /\ choice \in {"1", "not asked"}
    /\ locations = DefaultLocations

\* C9 as stated: without a location or URL, main and scrape_all_locations
\* alike report and end without a request and without a file.
C9_NoInputNoWork ==
    (MainGotNothing \/ CalledWithoutLocations) =>
        /\ requests = <<>> /\ files = <<>>
        /\ console # <<>>

\* C9 amended: when main is given an empty location or an empty URL it reports
\* that and returns without a request, a record or a file; scrape_all_locations
\* called without locations goes through its default list of cities instead.
C9_MainReportsDefaultsScraped ==
    /\ MainGotNothing =>
          /\ requests = <<>> /\ files = <<>> /\ scraped_data = <<>>
          /\ console = <<IF choice = "2" THEN "No location provided." ELSE "No URL provided.">>
    /\ (choice = "1" /\ pc \in {"location", "url", "export", "done"}) =>
          /\ locations = SubSeq(AllDefaultLocations, 1, MaxLocations)
          /\ pc \in {"export", "done"} => Targets(RequestsOf("search")) = locations

\* C9 witness: main was given an empty location and has returned.
C9_Witness == pc = "return" /\ choice = "2" /\ console = <<"No location provided.">>

\* C9, the other case: main ended after scrape_all_locations, called without
\* locations, searched the default cities.
C9_WitnessDefaults ==
    /\ choice = "1" /\ pc = "done"
    /\ Targets(RequestsOf("search")) = SubSeq(AllDefaultLocations, 1, MaxLocations)

====
